---- MODULE Spec2Model ----
(***************************************************************************)
(* Model of the document pipeline of src/backend/main.py (class            *)
(* DoclingAgent): candidate selection over three prompts, DocTags          *)
(* parsing with table reconstruction, line de-duplication, response        *)
(* formatting with intent-dependent truncation, and the router fallback.   *)
(*                                                                         *)
(* A Python str is modelled as a sequence of one-character strings, so     *)
(* that the regular expressions and slices of the source act on            *)
(* characters exactly as they do in the program.  A printable ASCII        *)
(* character is written as itself, and any other character as one token    *)
(* made of U+ and its code point in hexadecimal: Chr gives the writing of  *)
(* every code point.                                                       *)
(***************************************************************************)
EXTENDS Integers, Sequences, FiniteSets, TLC

VARIABLES
    pc,               \* per request: position inside process_document
    idx,              \* per request: loop index i over prompts (0-based)
    best_result,      \* per request: local best_result
    best_length,      \* per request: local best_length
    user_message,     \* per request: the request's message
    calls,            \* per request: log of the backend calls issued so far
    ret,              \* per request: the value process_document returned
    last_raw_output,  \* docling_agent._last_raw_output (module-level singleton)
    fn_pc,            \* pure-function harness: how many applications were made
    fn_in,            \* pure-function harness: the argument
    fn_out            \* pure-function harness: the results, in order

vars == <<pc, idx, best_result, best_length, user_message, calls, ret,
          last_raw_output, fn_pc, fn_in, fn_out>>

pipeVars == <<pc, idx, best_result, best_length, user_message, calls, ret,
              last_raw_output>>

fnVars == <<fn_pc, fn_in, fn_out>>

-----------------------------------------------------------------------------
(* Characters and strings                                                  *)

\* n in upper-case hexadecimal, with at least width digits.
RECURSIVE HexOf(_, _)
HexOf(n, width) ==
    LET HexDigits ==
            <<"0", "1", "2", "3", "4", "5", "6", "7", "8", "9", "A", "B", "C",
              "D", "E", "F">>
    IN IF n = 0 /\ width <= 0
       THEN ""
       ELSE HexOf(n \div 16, width - 1) \o HexDigits[(n % 16) + 1]

\* The character of code point n as the model writes it: a printable ASCII
\* character is itself, tab, line feed, form feed and carriage return are
\* "\t", "\n", "\f" and "\r", and every other character is the one-character
\* token "U+" followed by its code point in at least four hexadecimal digits
\* (U+000B, U+00A0, U+2022, U+1F4C4).  Ascii lists the characters of code
\* points 32 to 126 in order; the grave accent of code point 96 is written
\* as a token.
Chr(n) ==
    LET Ascii ==
            <<" ", "!", "\"", "#", "$", "%", "&", "'", "(", ")", "*", "+", ",", "-",
              ".", "/", "0", "1", "2", "3", "4", "5", "6", "7", "8", "9", ":", ";",
              "<", "=", ">", "?", "@", "A", "B", "C", "D", "E", "F", "G", "H", "I",
              "J", "K", "L", "M", "N", "O", "P", "Q", "R", "S", "T", "U", "V", "W",
              "X", "Y", "Z", "[", "\\", "]", "^", "_", "U+0060", "a", "b", "c", "d",
              "e", "f", "g", "h", "i", "j", "k", "l", "m", "n", "o", "p", "q", "r",
              "s", "t", "u", "v", "w", "x", "y", "z", "{", "|", "}", "~">>
    IN CASE n \in 32..126 -> Ascii[n - 31]
         [] n = 9 -> "\t"
         [] n = 10 -> "\n"
         [] n = 12 -> "\f"
         [] n = 13 -> "\r"
         [] OTHER -> "U+" \o HexOf(n, 4)

\* The code points lying in one of the ranges <<first, last>> of runs.
Codes(runs) == UNION {run[1]..run[2] : run \in runs}

\* The characters str.isspace() holds of, by code point: the characters
\* str.strip() removes, str.split() splits at and the regex class \s matches
\* in a str pattern (Unicode 14.0.0).
WS ==
    {Chr(n) : n \in
               {9, 10, 11, 12, 13, 28, 29, 30, 31, 32, 133, 160, 5760, 8192,
                8193, 8194, 8195, 8196, 8197, 8198, 8199,
                8200, 8201, 8202, 8232, 8233, 8239, 8287,
                12288}}

\* The surrogate code points U+D800 to U+DFFF, which a str can hold (a JSON
\* reply with an unpaired \ud800 escape) and UTF-8 cannot encode.
Surrogates == {Chr(n) : n \in 55296..57343}

\* The error handlers Python gives the standard output it writes in UTF-8:
\* strict, and surrogateescape when the locale is C or POSIX.  The process
\* environment decides which, not the program.
StdoutErrors == {"strict", "surrogateescape"}

\* u repeated n times (Python: u * n).
Repeat(u, n) == [k \in 1..(n * Len(u)) |-> u[((k - 1) % Len(u)) + 1]]

\* s[a-1:b] of Python for 1-based inclusive a..b; empty when b < a.
Slice(s, a, b) == IF b < a THEN <<>> ELSE SubSeq(s, a, b)

\* Python s[:n].
Prefix(s, n) == IF Len(s) <= n THEN s ELSE SubSeq(s, 1, n)

\* lit occurs in s starting at position i.
MatchAt(s, i, lit) ==
    /\ i >= 1
    /\ i + Len(lit) - 1 <= Len(s)
    /\ \A k \in 1..Len(lit) : s[i + k - 1] = lit[k]

\* Some literal of Lits occurs in s at position i.
MatchAnyAt(s, i, Lits) == \E lit \in Lits : MatchAt(s, i, lit)

\* The least element of a non-empty set of integers.
Min(S) == CHOOSE x \in S : \A y \in S : x <= y

\* Least position >= from where a literal of Lits occurs; 0 when there is none.
FindFirst(s, from, Lits) ==
    LET hits == {p \in from..Len(s) : MatchAnyAt(s, p, Lits)}
    IN IF hits = {} THEN 0 ELSE Min(hits)

\* The literal of Lits that occurs at position p (the alternation's choice).
LitAt(s, p, Lits) == CHOOSE lit \in Lits : MatchAt(s, p, lit)

\* Python: sub in s.
Contains(s, sub) == \E p \in 1..(Len(s) - Len(sub) + 1) : MatchAt(s, p, sub)

\* Python: c in s for a single character c.
HasChar(s, c) == \E p \in 1..Len(s) : s[p] = c

\* Python str.strip(): drop leading and trailing whitespace.
Strip(s) ==
    LET n  == Len(s)
        lo == CHOOSE a \in 1..(n + 1) :
                 /\ (a = n + 1 \/ s[a] \notin WS)
                 /\ \A j \in 1..(a - 1) : s[j] \in WS
        hi == CHOOSE b \in 0..n :
                 /\ (b = 0 \/ s[b] \notin WS)
                 /\ \A j \in (b + 1)..n : s[j] \in WS
    IN Slice(s, lo, hi)

\* Python str.split(sep) for a non-empty literal sep: the pieces between the
\* non-overlapping occurrences of sep, scanning left to right.
RECURSIVE SplitFrom(_, _, _)
SplitFrom(s, from, sep) ==
    LET p == FindFirst(s, from, {sep})
    IN IF p = 0
       THEN <<Slice(s, from, Len(s))>>
       ELSE <<Slice(s, from, p - 1)>> \o SplitFrom(s, p + Len(sep), sep)

Split(s, sep) == SplitFrom(s, 1, sep)

\* Python sep.join(parts).
RECURSIVE Join(_, _)
Join(parts, sep) ==
    IF Len(parts) = 0 THEN <<>>
    ELSE IF Len(parts) = 1 THEN parts[1]
    ELSE parts[1] \o sep \o Join(Tail(parts), sep)

\* The elements of a sequence, as a set.
Range(f) == {f[x] : x \in DOMAIN f}

-----------------------------------------------------------------------------
(* DoclingAgent._remove_duplicates                                         *)

\* The loop of _remove_duplicates over lines[k..]: seen is the set of stripped
\* lines already kept; a line is kept when its stripped form is non-empty and
\* new, and it is kept unstripped.
RECURSIVE DedupLoop(_, _, _)
DedupLoop(lines, k, seen) ==
    IF k > Len(lines) THEN <<>>
    ELSE LET line_clean == Strip(lines[k])
         IN IF line_clean # <<>> /\ line_clean \notin seen
            THEN <<lines[k]>> \o DedupLoop(lines, k + 1, seen \cup {line_clean})
            ELSE DedupLoop(lines, k + 1, seen)

\* A faulty loop that forgets a line once its duplicate was dropped.
RECURSIVE DedupLoopToggle(_, _, _)
DedupLoopToggle(lines, k, seen) ==
    IF k > Len(lines) THEN <<>>
    ELSE LET line_clean == Strip(lines[k])
         IN IF line_clean # <<>> /\ line_clean \notin seen
            THEN <<lines[k]>>
                     \o DedupLoopToggle(lines, k + 1, seen \cup {line_clean})
            ELSE DedupLoopToggle(lines, k + 1, seen \ {line_clean})

DedupKeepToggle(lines) == DedupLoopToggle(lines, 1, {})

\* seen = set(); result = []; for line in lines: ...   (lines 482-489)
DedupKeep(lines) == DedupLoop(lines, 1, {})

_remove_duplicates(text) == Join(DedupKeep(Split(text, <<"\n">>)), <<"\n">>)

-----------------------------------------------------------------------------
(* Literals of the DocTags dialect                                         *)

Open(name) == <<"<">> \o name \o <<">">>

Close(name) == <<"<", "/">> \o name \o <<">">>

N_title == <<"t", "i", "t", "l", "e">>

N_table == <<"t", "a", "b", "l", "e">>

N_otsl == <<"o", "t", "s", "l">>

N_text == <<"t", "e", "x", "t">>

N_ched == <<"c", "h", "e", "d">>

N_fcel == <<"f", "c", "e", "l">>

N_lcel == <<"l", "c", "e", "l">>

N_cell == <<"c", "e", "l", "l">>

N_nl == <<"n", "l">>

N_list_item == <<"l", "i", "s", "t", "_", "i", "t", "e", "m">>

N_unordered_list ==
    <<"u", "n", "o", "r", "d", "e", "r", "e", "d", "_", "l", "i", "s", "t">>

N_ordered_list == <<"o", "r", "d", "e", "r", "e", "d", "_", "l", "i", "s", "t">>

Digits == <<"0", "1", "2", "3", "4", "5", "6", "7", "8", "9">>

\* Python str(n) for n >= 0.
RECURSIVE IntToStr(_)
IntToStr(n) ==
    IF n < 10 THEN <<Digits[n + 1]>>
    ELSE IntToStr(n \div 10) \o <<Digits[(n % 10) + 1]>>

\* The tag name section_header_level_{level}.
N_section_header(level) ==
    <<"s", "e", "c", "t", "i", "o", "n", "_", "h", "e", "a", "d", "e", "r",
      "_", "l", "e", "v", "e", "l", "_">> \o IntToStr(level)

-----------------------------------------------------------------------------
(* The regular expressions of _parse_doctags_to_text                       *)

\* re.findall(r'<open>(.*?)</close>', s, re.DOTALL) from position `from`, for
\* alternations Opens and Closes of literals: the leftmost opener, then the
\* nearest closer after it; the scan resumes after that closer.  An opener
\* with no closer after it matches nothing, and neither does any later one.
RECURSIVE FindAllBetween(_, _, _, _)
FindAllBetween(s, from, Opens, Closes) ==
    LET p == FindFirst(s, from, Opens)
    IN IF p = 0 THEN <<>>
       ELSE LET o == LitAt(s, p, Opens)
                q == FindFirst(s, p + Len(o), Closes)
            IN IF q = 0 THEN <<>>
               ELSE <<Slice(s, p + Len(o), q - 1)>>
                        \o FindAllBetween(s, q + Len(LitAt(s, q, Closes)),
                                          Opens, Closes)

\* The lookahead (?=stop1|stop2|$) at position j: a stop literal starts here,
\* or j is the end of the string, or only a final newline follows ($ without
\* re.MULTILINE).
LookaheadAt(s, j, Stops) ==
    \/ MatchAnyAt(s, j, Stops)
    \/ j = Len(s) + 1
    \/ (j = Len(s) /\ s[j] = "\n")

\* re.findall(r'<open>(.*?)(?=stops|$)', s, re.DOTALL) from position `from`:
\* the leftmost opener, then the shortest text up to a lookahead position; the
\* lookahead is not consumed, so the scan resumes at it.
RECURSIVE FindAllUntil(_, _, _, _)
FindAllUntil(s, from, Opens, Stops) ==
    LET p == FindFirst(s, from, Opens)
    IN IF p = 0 THEN <<>>
       ELSE LET b == p + Len(LitAt(s, p, Opens))
                e == CHOOSE j \in b..(Len(s) + 1) :
                        /\ LookaheadAt(s, j, Stops)
                        /\ \A m \in b..(j - 1) : ~LookaheadAt(s, m, Stops)
            IN <<Slice(s, b, e - 1)>> \o FindAllUntil(s, e, Opens, Stops)

\* [c.strip() for c in found if c.strip() and '<' not in c]
RECURSIVE CleanCells(_)
CleanCells(found) ==
    IF found = <<>> THEN <<>>
    ELSE LET c == Head(found)
         IN (IF Strip(c) # <<>> /\ ~HasChar(c, "<") THEN <<Strip(c)>> ELSE <<>>)
                \o CleanCells(Tail(found))

\* re.sub(r'<[^>]+>', ' ', s) from position `from`: a '<', at least one
\* character other than '>', then the nearest '>'.
RECURSIVE SubTags(_, _)
SubTags(s, from) ==
    LET p == FindFirst(s, from, {<<"<">>})
    IN IF p = 0 THEN Slice(s, from, Len(s))
       ELSE LET q == FindFirst(s, p + 1, {<<">">>})
            IN IF q = 0 THEN Slice(s, from, Len(s))
               ELSE IF q = p + 1
                    THEN Slice(s, from, p) \o SubTags(s, p + 1)
                    ELSE Slice(s, from, p - 1) \o <<" ">> \o SubTags(s, q + 1)

\* re.sub(r'\s+', ' ', s): every maximal run of whitespace becomes one space.
CollapseWS(s) ==
    LET keep == SelectSeq([j \in 1..Len(s) |-> j],
                          LAMBDA j : s[j] \notin WS \/ j = 1 \/ s[j - 1] \notin WS)
    IN [k \in 1..Len(keep) |-> IF s[keep[k]] \in WS THEN " " ELSE s[keep[k]]]

-----------------------------------------------------------------------------
(* DoclingAgent._parse_doctags_to_text: table reconstruction               *)

\* The cells of one row segment (lines 533-537).
RowCells(row) ==
    CleanCells(FindAllUntil(row, 1,
                            {Open(N_fcel), Open(N_lcel), Open(N_cell)},
                            {<<"<">> \o N_fcel, <<"<">> \o N_lcel,
                             <<"<">> \o N_cell, <<"<">> \o N_nl}))

\* The loop over the <nl> segments (lines 528-540): a segment holding <ched>
\* is skipped, a segment with no kept cell adds no row.
RECURSIVE DataRows(_)
DataRows(rows) ==
    IF rows = <<>> THEN <<>>
    ELSE LET row == Head(rows)
             cells == RowCells(row)
         IN (IF Contains(row, Open(N_ched)) \/ cells = <<>>
             THEN <<>> ELSE <<cells>>) \o DataRows(Tail(rows))

\* The <ched> header row (lines 519-525): one row, when a kept header exists.
HeaderRows(table) ==
    LET headers == FindAllUntil(table, 1, {Open(N_ched)},
                                {Open(N_ched), Open(N_nl)})
        clean_headers == CleanCells(headers)
    IN IF headers # <<>> /\ clean_headers # <<>> THEN <<clean_headers>> ELSE <<>>

\* table_rows as it stands at line 542.
TableRows(table) == HeaderRows(table) \o DataRows(Split(table, Open(N_nl)))

\* A faulty padding that also cuts a longer row down to the header width.
PadRowTruncating(row, width) ==
    IF Len(row) < width
    THEN row \o [k \in 1..(width - Len(row)) |-> <<>>]
    ELSE SubSeq(row, 1, width)

\* while len(row) < len(table_rows[0]): row.append("")   (lines 552-553)
PadRow(row, width) ==
    IF Len(row) < width
    THEN row \o [k \in 1..(width - Len(row)) |-> <<>>]
    ELSE row

\* table_rows after the rendering loop has padded its data rows in place.
PaddedRows(table_rows) ==
    [k \in 1..Len(table_rows) |->
        IF k = 1 THEN table_rows[1] ELSE PadRow(table_rows[k], Len(table_rows[1]))]

\* "| " + " | ".join(row) + " |"
RenderRow(row) == <<"|", " ">> \o Join(row, <<" ", "|", " ">>) \o <<" ", "|">>

\* A faulty separator that has a single divider cell whatever the header.
RenderSeparatorSingle(n) == <<"|", "-", "-", "-", "|">>

\* "|" + "|".join(["---"] * n) + "|"
RenderSeparator(n) ==
    <<"|">> \o Join([k \in 1..n |-> <<"-", "-", "-">>], <<"|">>) \o <<"|">>

\* "\n**Table:**\n"
TableCaption == <<"\n", "*", "*", "T", "a", "b", "l", "e", ":", "*", "*", "\n">>

\* What one table span appends to result (lines 543-555); nothing when no
\* row was extracted.
TableBlock(table) ==
    LET table_rows == TableRows(table)
        padded == PaddedRows(table_rows)
    IN IF table_rows = <<>> THEN <<>>
       ELSE <<TableCaption, RenderRow(padded[1]),
              RenderSeparator(Len(padded[1]))>>
            \o [k \in 1..(Len(padded) - 1) |-> RenderRow(padded[k + 1])]
            \o << <<"\n">> >>

\* Concatenation of a sequence of sequences.
RECURSIVE Flatten(_)
Flatten(ss) == IF ss = <<>> THEN <<>> ELSE Head(ss) \o Flatten(Tail(ss))

-----------------------------------------------------------------------------
(* DoclingAgent._parse_doctags_to_text: the tag families                   *)

Spans(s, name) == FindAllBetween(s, 1, {Open(name)}, {Close(name)})

\* f"# {title.strip()}\n" for every title span (lines 500-503).
TitleBlocks(s) ==
    LET titles == Spans(s, N_title)
    IN [k \in 1..Len(titles) |-> <<"#", " ">> \o Strip(titles[k]) \o <<"\n">>]

\* f"{'#' * (level + 1)} {header.strip()}\n" (lines 507-510).
HeaderBlocks(s, level) ==
    LET headers == Spans(s, N_section_header(level))
    IN [k \in 1..Len(headers) |->
          Repeat(<<"#">>, level + 1) \o <<" ">> \o Strip(headers[k]) \o <<"\n">>]

\* for level in range(1, 6)
SectionBlocks(s) == Flatten([level \in 1..5 |-> HeaderBlocks(s, level)])

\* The table and otsl spans (line 515): either opener, either closer.
TableSpans(s) ==
    FindAllBetween(s, 1, {Open(N_table), Open(N_otsl)},
                   {Close(N_table), Close(N_otsl)})

TableBlocks(s) ==
    LET tables == TableSpans(s)
    IN Flatten([k \in 1..Len(tables) |-> TableBlock(tables[k])])

\* f"{text.strip()}\n" (lines 559-562).
TextBlocks(s) ==
    LET texts == Spans(s, N_text)
    IN [k \in 1..Len(texts) |-> Strip(texts[k]) \o <<"\n">>]

\* The bullet character U+2022 of the source, as one character.
Bullet == "U+2022"

\* One unordered list: a bullet line per item, then "\n".
UnorderedBlock(ul) ==
    LET items == Spans(ul, N_list_item)
    IN [k \in 1..Len(items) |-> <<Bullet, " ">> \o Strip(items[k])]
       \o << <<"\n">> >>

\* One ordered list: f"{i}. {item.strip()}" per item counted from 1, then "\n".
OrderedBlock(ol) ==
    LET items == Spans(ol, N_list_item)
    IN [k \in 1..Len(items) |-> IntToStr(k) \o <<".", " ">> \o Strip(items[k])]
       \o << <<"\n">> >>

UnorderedBlocks(s) ==
    LET lists == Spans(s, N_unordered_list)
    IN Flatten([k \in 1..Len(lists) |-> UnorderedBlock(lists[k])])

OrderedBlocks(s) ==
    LET lists == Spans(s, N_ordered_list)
    IN Flatten([k \in 1..Len(lists) |-> OrderedBlock(lists[k])])

\* A faulty scan that collects the plain text before the tables.
ResultBlocksTextFirst(s) ==
    TitleBlocks(s) \o SectionBlocks(s) \o TextBlocks(s) \o TableBlocks(s)
        \o UnorderedBlocks(s) \o OrderedBlocks(s)

\* The list `result` at line 590.
ResultBlocks(s) ==
    TitleBlocks(s) \o SectionBlocks(s) \o TableBlocks(s) \o TextBlocks(s)
        \o UnorderedBlocks(s) \o OrderedBlocks(s)

\* A faulty fallback that removes the tags and leaves the whitespace alone.
RawTextUncollapsed(s) == Strip(SubTags(s, 1))

\* Lines 585-588: blanket tag removal, whitespace collapse, strip.
RawText(s) == Strip(CollapseWS(SubTags(s, 1)))

\* found_content at line 582.  Every statement that appends to result also
\* sets found_content, and nothing else sets it (lines 502-503, 509-510,
\* 543-556, 561-562, 570-571, 578-579): it is true exactly when result is
\* not empty.
FoundContent(result) == result # <<>>

\* Lines 581-591: the text returned for the list result.
ParsedText(doctags_text, result) ==
    IF ~FoundContent(result) THEN RawText(doctags_text)
    ELSE IF Join(result, <<"\n">>) # <<>> THEN Join(result, <<"\n">>)
    ELSE doctags_text

\* The string returned.  The handler of lines 593-596 guards statements
\* that do not raise on a str and is left out.
_parse_doctags_to_text(doctags_text) ==
    ParsedText(doctags_text, ResultBlocks(doctags_text))

\* The locals of _parse_doctags_to_text when it returns: found_content, the
\* list result, every table's table_rows before and after the padding loop,
\* and the returned text.
ParseDoctags(doctags_text) ==
    LET tables == TableSpans(doctags_text)
        result == ResultBlocks(doctags_text)
    IN [found_content |-> FoundContent(result),
        result |-> result,
        tables |-> [k \in 1..Len(tables) |->
                      [table_rows |-> TableRows(tables[k]),
                       padded |-> PaddedRows(TableRows(tables[k]))]],
        text |-> ParsedText(doctags_text, result)]

-----------------------------------------------------------------------------
(* DoclingAgent._format_document_response                                  *)

\* The simple lower-case mappings of str.lower(): <<first, last, step, delta>>
\* maps the code points first, first + step, ..., last to themselves plus
\* delta (Unicode 14.0.0).
LowerRuns ==
    {<<65, 90, 1, 32>>, <<192, 214, 1, 32>>, <<216, 222, 1, 32>>,
     <<256, 302, 2, 1>>, <<306, 310, 2, 1>>, <<313, 327, 2, 1>>,
     <<330, 374, 2, 1>>, <<376, 376, 1, -121>>, <<377, 381, 2, 1>>,
     <<385, 385, 1, 210>>, <<386, 388, 2, 1>>, <<390, 390, 1, 206>>,
     <<391, 391, 1, 1>>, <<393, 394, 1, 205>>, <<395, 395, 1, 1>>,
     <<398, 398, 1, 79>>, <<399, 399, 1, 202>>, <<400, 400, 1, 203>>,
     <<401, 401, 1, 1>>, <<403, 403, 1, 205>>, <<404, 404, 1, 207>>,
     <<406, 406, 1, 211>>, <<407, 407, 1, 209>>, <<408, 408, 1, 1>>,
     <<412, 412, 1, 211>>, <<413, 413, 1, 213>>, <<415, 415, 1, 214>>,
     <<416, 420, 2, 1>>, <<422, 422, 1, 218>>, <<423, 423, 1, 1>>,
     <<425, 425, 1, 218>>, <<428, 428, 1, 1>>, <<430, 430, 1, 218>>,
     <<431, 431, 1, 1>>, <<433, 434, 1, 217>>, <<435, 437, 2, 1>>,
     <<439, 439, 1, 219>>, <<440, 440, 1, 1>>, <<444, 444, 1, 1>>,
     <<452, 452, 1, 2>>, <<453, 453, 1, 1>>, <<455, 455, 1, 2>>,
     <<456, 456, 1, 1>>, <<458, 458, 1, 2>>, <<459, 475, 2, 1>>,
     <<478, 494, 2, 1>>, <<497, 497, 1, 2>>, <<498, 500, 2, 1>>,
     <<502, 502, 1, -97>>, <<503, 503, 1, -56>>, <<504, 542, 2, 1>>,
     <<544, 544, 1, -130>>, <<546, 562, 2, 1>>, <<570, 570, 1, 10795>>,
     <<571, 571, 1, 1>>, <<573, 573, 1, -163>>, <<574, 574, 1, 10792>>,
     <<577, 577, 1, 1>>, <<579, 579, 1, -195>>, <<580, 580, 1, 69>>,
     <<581, 581, 1, 71>>, <<582, 590, 2, 1>>, <<880, 882, 2, 1>>,
     <<886, 886, 1, 1>>, <<895, 895, 1, 116>>, <<902, 902, 1, 38>>,
     <<904, 906, 1, 37>>, <<908, 908, 1, 64>>, <<910, 911, 1, 63>>,
     <<913, 929, 1, 32>>, <<931, 939, 1, 32>>, <<975, 975, 1, 8>>,
     <<984, 1006, 2, 1>>, <<1012, 1012, 1, -60>>, <<1015, 1015, 1, 1>>,
     <<1017, 1017, 1, -7>>, <<1018, 1018, 1, 1>>, <<1021, 1023, 1, -130>>,
     <<1024, 1039, 1, 80>>, <<1040, 1071, 1, 32>>, <<1120, 1152, 2, 1>>,
     <<1162, 1214, 2, 1>>, <<1216, 1216, 1, 15>>, <<1217, 1229, 2, 1>>,
     <<1232, 1326, 2, 1>>, <<1329, 1366, 1, 48>>, <<4256, 4293, 1, 7264>>,
     <<4295, 4295, 1, 7264>>, <<4301, 4301, 1, 7264>>,
     <<5024, 5103, 1, 38864>>, <<5104, 5109, 1, 8>>,
     <<7312, 7354, 1, -3008>>, <<7357, 7359, 1, -3008>>,
     <<7680, 7828, 2, 1>>, <<7838, 7838, 1, -7615>>, <<7840, 7934, 2, 1>>,
     <<7944, 7951, 1, -8>>, <<7960, 7965, 1, -8>>, <<7976, 7983, 1, -8>>,
     <<7992, 7999, 1, -8>>, <<8008, 8013, 1, -8>>, <<8025, 8031, 2, -8>>,
     <<8040, 8047, 1, -8>>, <<8072, 8079, 1, -8>>, <<8088, 8095, 1, -8>>,
     <<8104, 8111, 1, -8>>, <<8120, 8121, 1, -8>>, <<8122, 8123, 1, -74>>,
     <<8124, 8124, 1, -9>>, <<8136, 8139, 1, -86>>, <<8140, 8140, 1, -9>>,
     <<8152, 8153, 1, -8>>, <<8154, 8155, 1, -100>>, <<8168, 8169, 1, -8>>,
     <<8170, 8171, 1, -112>>, <<8172, 8172, 1, -7>>, <<8184, 8185, 1, -128>>,
     <<8186, 8187, 1, -126>>, <<8188, 8188, 1, -9>>,
     <<8486, 8486, 1, -7517>>, <<8490, 8490, 1, -8383>>,
     <<8491, 8491, 1, -8262>>, <<8498, 8498, 1, 28>>, <<8544, 8559, 1, 16>>,
     <<8579, 8579, 1, 1>>, <<9398, 9423, 1, 26>>, <<11264, 11311, 1, 48>>,
     <<11360, 11360, 1, 1>>, <<11362, 11362, 1, -10743>>,
     <<11363, 11363, 1, -3814>>, <<11364, 11364, 1, -10727>>,
     <<11367, 11371, 2, 1>>, <<11373, 11373, 1, -10780>>,
     <<11374, 11374, 1, -10749>>, <<11375, 11375, 1, -10783>>,
     <<11376, 11376, 1, -10782>>, <<11378, 11378, 1, 1>>,
     <<11381, 11381, 1, 1>>, <<11390, 11391, 1, -10815>>,
     <<11392, 11490, 2, 1>>, <<11499, 11501, 2, 1>>, <<11506, 11506, 1, 1>>,
     <<42560, 42604, 2, 1>>, <<42624, 42650, 2, 1>>, <<42786, 42798, 2, 1>>,
     <<42802, 42862, 2, 1>>, <<42873, 42875, 2, 1>>,
     <<42877, 42877, 1, -35332>>, <<42878, 42886, 2, 1>>,
     <<42891, 42891, 1, 1>>, <<42893, 42893, 1, -42280>>,
     <<42896, 42898, 2, 1>>, <<42902, 42920, 2, 1>>,
     <<42922, 42922, 1, -42308>>, <<42923, 42923, 1, -42319>>,
     <<42924, 42924, 1, -42315>>, <<42925, 42925, 1, -42305>>,
     <<42926, 42926, 1, -42308>>, <<42928, 42928, 1, -42258>>,
     <<42929, 42929, 1, -42282>>, <<42930, 42930, 1, -42261>>,
     <<42931, 42931, 1, 928>>, <<42932, 42946, 2, 1>>,
     <<42948, 42948, 1, -48>>, <<42949, 42949, 1, -42307>>,
     <<42950, 42950, 1, -35384>>, <<42951, 42953, 2, 1>>,
     <<42960, 42960, 1, 1>>, <<42966, 42968, 2, 1>>, <<42997, 42997, 1, 1>>,
     <<65313, 65338, 1, 32>>, <<66560, 66599, 1, 40>>,
     <<66736, 66771, 1, 40>>, <<66928, 66964, 2, 39>>,
     <<66929, 66937, 2, 39>>, <<66941, 66953, 2, 39>>,
     <<66957, 66961, 2, 39>>, <<66965, 66965, 1, 39>>,
     <<68736, 68786, 1, 64>>, <<71840, 71871, 1, 32>>,
     <<93760, 93791, 1, 32>>, <<125184, 125217, 1, 34>>}

\* The characters with a lower-case form, each with that form as a sequence;
\* the one character str.lower() maps to two is U+0130, which becomes i,
\* U+0307.
LowerPairs ==
    UNION {{<<Chr(run[1] + run[3] * k), <<Chr(run[1] + run[3] * k + run[4])>>>> :
               k \in 0..((run[2] - run[1]) \div run[3])} : run \in LowerRuns}
        \cup {<<Chr(304), <<Chr(105), Chr(775)>>>>}

\* The lower-case form of every character that has one, as a sequence.
ToLower ==
    [c \in {p[1] : p \in LowerPairs} |->
        (CHOOSE p \in LowerPairs : p[1] = c)[2]]

\* The cased characters that are not case-ignorable, as ranges of code
\* points: the characters at which the scan for a final sigma stops and
\* finds a letter.
CasedRuns ==
    {<<65, 90>>, <<97, 122>>, <<170, 170>>, <<181, 181>>, <<186, 186>>,
     <<192, 214>>, <<216, 246>>, <<248, 442>>, <<444, 447>>, <<452, 659>>,
     <<661, 687>>, <<880, 883>>, <<886, 887>>, <<891, 893>>, <<895, 895>>,
     <<902, 902>>, <<904, 906>>, <<908, 908>>, <<910, 929>>, <<931, 1013>>,
     <<1015, 1153>>, <<1162, 1327>>, <<1329, 1366>>, <<1376, 1416>>,
     <<4256, 4293>>, <<4295, 4295>>, <<4301, 4301>>, <<4304, 4346>>,
     <<4349, 4351>>, <<5024, 5109>>, <<5112, 5117>>, <<7296, 7304>>,
     <<7312, 7354>>, <<7357, 7359>>, <<7424, 7467>>, <<7531, 7543>>,
     <<7545, 7578>>, <<7680, 7957>>, <<7960, 7965>>, <<7968, 8005>>,
     <<8008, 8013>>, <<8016, 8023>>, <<8025, 8025>>, <<8027, 8027>>,
     <<8029, 8029>>, <<8031, 8061>>, <<8064, 8116>>, <<8118, 8124>>,
     <<8126, 8126>>, <<8130, 8132>>, <<8134, 8140>>, <<8144, 8147>>,
     <<8150, 8155>>, <<8160, 8172>>, <<8178, 8180>>, <<8182, 8188>>,
     <<8450, 8450>>, <<8455, 8455>>, <<8458, 8467>>, <<8469, 8469>>,
     <<8473, 8477>>, <<8484, 8484>>, <<8486, 8486>>, <<8488, 8488>>,
     <<8490, 8493>>, <<8495, 8500>>, <<8505, 8505>>, <<8508, 8511>>,
     <<8517, 8521>>, <<8526, 8526>>, <<8544, 8575>>, <<8579, 8580>>,
     <<9398, 9449>>, <<11264, 11387>>, <<11390, 11492>>, <<11499, 11502>>,
     <<11506, 11507>>, <<11520, 11557>>, <<11559, 11559>>, <<11565, 11565>>,
     <<42560, 42605>>, <<42624, 42651>>, <<42786, 42863>>, <<42865, 42887>>,
     <<42891, 42894>>, <<42896, 42954>>, <<42960, 42961>>, <<42963, 42963>>,
     <<42965, 42969>>, <<42997, 42998>>, <<43002, 43002>>, <<43824, 43866>>,
     <<43872, 43880>>, <<43888, 43967>>, <<64256, 64262>>, <<64275, 64279>>,
     <<65313, 65338>>, <<65345, 65370>>, <<66560, 66639>>, <<66736, 66771>>,
     <<66776, 66811>>, <<66928, 66938>>, <<66940, 66954>>, <<66956, 66962>>,
     <<66964, 66965>>, <<66967, 66977>>, <<66979, 66993>>, <<66995, 67001>>,
     <<67003, 67004>>, <<68736, 68786>>, <<68800, 68850>>, <<71840, 71903>>,
     <<93760, 93823>>, <<119808, 119892>>, <<119894, 119964>>,
     <<119966, 119967>>, <<119970, 119970>>, <<119973, 119974>>,
     <<119977, 119980>>, <<119982, 119993>>, <<119995, 119995>>,
     <<119997, 120003>>, <<120005, 120069>>, <<120071, 120074>>,
     <<120077, 120084>>, <<120086, 120092>>, <<120094, 120121>>,
     <<120123, 120126>>, <<120128, 120132>>, <<120134, 120134>>,
     <<120138, 120144>>, <<120146, 120485>>, <<120488, 120512>>,
     <<120514, 120538>>, <<120540, 120570>>, <<120572, 120596>>,
     <<120598, 120628>>, <<120630, 120654>>, <<120656, 120686>>,
     <<120688, 120712>>, <<120714, 120744>>, <<120746, 120770>>,
     <<120772, 120779>>, <<122624, 122633>>, <<122635, 122654>>,
     <<125184, 125251>>, <<127280, 127305>>, <<127312, 127337>>,
     <<127344, 127369>>}

\* The case-ignorable characters, as ranges of code points: the characters
\* the scan for a final sigma skips.
CaseIgnorableRuns ==
    {<<39, 39>>, <<46, 46>>, <<58, 58>>, <<94, 94>>, <<96, 96>>,
     <<168, 168>>, <<173, 173>>, <<175, 175>>, <<180, 180>>, <<183, 184>>,
     <<688, 879>>, <<884, 885>>, <<890, 890>>, <<900, 901>>, <<903, 903>>,
     <<1155, 1161>>, <<1369, 1369>>, <<1375, 1375>>, <<1425, 1469>>,
     <<1471, 1471>>, <<1473, 1474>>, <<1476, 1477>>, <<1479, 1479>>,
     <<1524, 1524>>, <<1536, 1541>>, <<1552, 1562>>, <<1564, 1564>>,
     <<1600, 1600>>, <<1611, 1631>>, <<1648, 1648>>, <<1750, 1757>>,
     <<1759, 1768>>, <<1770, 1773>>, <<1807, 1807>>, <<1809, 1809>>,
     <<1840, 1866>>, <<1958, 1968>>, <<2027, 2037>>, <<2042, 2042>>,
     <<2045, 2045>>, <<2070, 2093>>, <<2137, 2139>>, <<2184, 2184>>,
     <<2192, 2193>>, <<2200, 2207>>, <<2249, 2306>>, <<2362, 2362>>,
     <<2364, 2364>>, <<2369, 2376>>, <<2381, 2381>>, <<2385, 2391>>,
     <<2402, 2403>>, <<2417, 2417>>, <<2433, 2433>>, <<2492, 2492>>,
     <<2497, 2500>>, <<2509, 2509>>, <<2530, 2531>>, <<2558, 2558>>,
     <<2561, 2562>>, <<2620, 2620>>, <<2625, 2626>>, <<2631, 2632>>,
     <<2635, 2637>>, <<2641, 2641>>, <<2672, 2673>>, <<2677, 2677>>,
     <<2689, 2690>>, <<2748, 2748>>, <<2753, 2757>>, <<2759, 2760>>,
     <<2765, 2765>>, <<2786, 2787>>, <<2810, 2815>>, <<2817, 2817>>,
     <<2876, 2876>>, <<2879, 2879>>, <<2881, 2884>>, <<2893, 2893>>,
     <<2901, 2902>>, <<2914, 2915>>, <<2946, 2946>>, <<3008, 3008>>,
     <<3021, 3021>>, <<3072, 3072>>, <<3076, 3076>>, <<3132, 3132>>,
     <<3134, 3136>>, <<3142, 3144>>, <<3146, 3149>>, <<3157, 3158>>,
     <<3170, 3171>>, <<3201, 3201>>, <<3260, 3260>>, <<3263, 3263>>,
     <<3270, 3270>>, <<3276, 3277>>, <<3298, 3299>>, <<3328, 3329>>,
     <<3387, 3388>>, <<3393, 3396>>, <<3405, 3405>>, <<3426, 3427>>,
     <<3457, 3457>>, <<3530, 3530>>, <<3538, 3540>>, <<3542, 3542>>,
     <<3633, 3633>>, <<3636, 3642>>, <<3654, 3662>>, <<3761, 3761>>,
     <<3764, 3772>>, <<3782, 3782>>, <<3784, 3789>>, <<3864, 3865>>,
     <<3893, 3893>>, <<3895, 3895>>, <<3897, 3897>>, <<3953, 3966>>,
     <<3968, 3972>>, <<3974, 3975>>, <<3981, 3991>>, <<3993, 4028>>,
     <<4038, 4038>>, <<4141, 4144>>, <<4146, 4151>>, <<4153, 4154>>,
     <<4157, 4158>>, <<4184, 4185>>, <<4190, 4192>>, <<4209, 4212>>,
     <<4226, 4226>>, <<4229, 4230>>, <<4237, 4237>>, <<4253, 4253>>,
     <<4348, 4348>>, <<4957, 4959>>, <<5906, 5908>>, <<5938, 5939>>,
     <<5970, 5971>>, <<6002, 6003>>, <<6068, 6069>>, <<6071, 6077>>,
     <<6086, 6086>>, <<6089, 6099>>, <<6103, 6103>>, <<6109, 6109>>,
     <<6155, 6159>>, <<6211, 6211>>, <<6277, 6278>>, <<6313, 6313>>,
     <<6432, 6434>>, <<6439, 6440>>, <<6450, 6450>>, <<6457, 6459>>,
     <<6679, 6680>>, <<6683, 6683>>, <<6742, 6742>>, <<6744, 6750>>,
     <<6752, 6752>>, <<6754, 6754>>, <<6757, 6764>>, <<6771, 6780>>,
     <<6783, 6783>>, <<6823, 6823>>, <<6832, 6862>>, <<6912, 6915>>,
     <<6964, 6964>>, <<6966, 6970>>, <<6972, 6972>>, <<6978, 6978>>,
     <<7019, 7027>>, <<7040, 7041>>, <<7074, 7077>>, <<7080, 7081>>,
     <<7083, 7085>>, <<7142, 7142>>, <<7144, 7145>>, <<7149, 7149>>,
     <<7151, 7153>>, <<7212, 7219>>, <<7222, 7223>>, <<7288, 7293>>,
     <<7376, 7378>>, <<7380, 7392>>, <<7394, 7400>>, <<7405, 7405>>,
     <<7412, 7412>>, <<7416, 7417>>, <<7468, 7530>>, <<7544, 7544>>,
     <<7579, 7679>>, <<8125, 8125>>, <<8127, 8129>>, <<8141, 8143>>,
     <<8157, 8159>>, <<8173, 8175>>, <<8189, 8190>>, <<8203, 8207>>,
     <<8216, 8217>>, <<8228, 8228>>, <<8231, 8231>>, <<8234, 8238>>,
     <<8288, 8292>>, <<8294, 8303>>, <<8305, 8305>>, <<8319, 8319>>,
     <<8336, 8348>>, <<8400, 8432>>, <<11388, 11389>>, <<11503, 11505>>,
     <<11631, 11631>>, <<11647, 11647>>, <<11744, 11775>>, <<11823, 11823>>,
     <<12293, 12293>>, <<12330, 12333>>, <<12337, 12341>>, <<12347, 12347>>,
     <<12441, 12446>>, <<12540, 12542>>, <<40981, 40981>>, <<42232, 42237>>,
     <<42508, 42508>>, <<42607, 42610>>, <<42612, 42621>>, <<42623, 42623>>,
     <<42652, 42655>>, <<42736, 42737>>, <<42752, 42785>>, <<42864, 42864>>,
     <<42888, 42890>>, <<42994, 42996>>, <<43000, 43001>>, <<43010, 43010>>,
     <<43014, 43014>>, <<43019, 43019>>, <<43045, 43046>>, <<43052, 43052>>,
     <<43204, 43205>>, <<43232, 43249>>, <<43263, 43263>>, <<43302, 43309>>,
     <<43335, 43345>>, <<43392, 43394>>, <<43443, 43443>>, <<43446, 43449>>,
     <<43452, 43453>>, <<43471, 43471>>, <<43493, 43494>>, <<43561, 43566>>,
     <<43569, 43570>>, <<43573, 43574>>, <<43587, 43587>>, <<43596, 43596>>,
     <<43632, 43632>>, <<43644, 43644>>, <<43696, 43696>>, <<43698, 43700>>,
     <<43703, 43704>>, <<43710, 43711>>, <<43713, 43713>>, <<43741, 43741>>,
     <<43756, 43757>>, <<43763, 43764>>, <<43766, 43766>>, <<43867, 43871>>,
     <<43881, 43883>>, <<44005, 44005>>, <<44008, 44008>>, <<44013, 44013>>,
     <<64286, 64286>>, <<64434, 64450>>, <<65024, 65039>>, <<65043, 65043>>,
     <<65056, 65071>>, <<65106, 65106>>, <<65109, 65109>>, <<65279, 65279>>,
     <<65287, 65287>>, <<65294, 65294>>, <<65306, 65306>>, <<65342, 65342>>,
     <<65344, 65344>>, <<65392, 65392>>, <<65438, 65439>>, <<65507, 65507>>,
     <<65529, 65531>>, <<66045, 66045>>, <<66272, 66272>>, <<66422, 66426>>,
     <<67456, 67461>>, <<67463, 67504>>, <<67506, 67514>>, <<68097, 68099>>,
     <<68101, 68102>>, <<68108, 68111>>, <<68152, 68154>>, <<68159, 68159>>,
     <<68325, 68326>>, <<68900, 68903>>, <<69291, 69292>>, <<69446, 69456>>,
     <<69506, 69509>>, <<69633, 69633>>, <<69688, 69702>>, <<69744, 69744>>,
     <<69747, 69748>>, <<69759, 69761>>, <<69811, 69814>>, <<69817, 69818>>,
     <<69821, 69821>>, <<69826, 69826>>, <<69837, 69837>>, <<69888, 69890>>,
     <<69927, 69931>>, <<69933, 69940>>, <<70003, 70003>>, <<70016, 70017>>,
     <<70070, 70078>>, <<70089, 70092>>, <<70095, 70095>>, <<70191, 70193>>,
     <<70196, 70196>>, <<70198, 70199>>, <<70206, 70206>>, <<70367, 70367>>,
     <<70371, 70378>>, <<70400, 70401>>, <<70459, 70460>>, <<70464, 70464>>,
     <<70502, 70508>>, <<70512, 70516>>, <<70712, 70719>>, <<70722, 70724>>,
     <<70726, 70726>>, <<70750, 70750>>, <<70835, 70840>>, <<70842, 70842>>,
     <<70847, 70848>>, <<70850, 70851>>, <<71090, 71093>>, <<71100, 71101>>,
     <<71103, 71104>>, <<71132, 71133>>, <<71219, 71226>>, <<71229, 71229>>,
     <<71231, 71232>>, <<71339, 71339>>, <<71341, 71341>>, <<71344, 71349>>,
     <<71351, 71351>>, <<71453, 71455>>, <<71458, 71461>>, <<71463, 71467>>,
     <<71727, 71735>>, <<71737, 71738>>, <<71995, 71996>>, <<71998, 71998>>,
     <<72003, 72003>>, <<72148, 72151>>, <<72154, 72155>>, <<72160, 72160>>,
     <<72193, 72202>>, <<72243, 72248>>, <<72251, 72254>>, <<72263, 72263>>,
     <<72273, 72278>>, <<72281, 72283>>, <<72330, 72342>>, <<72344, 72345>>,
     <<72752, 72758>>, <<72760, 72765>>, <<72767, 72767>>, <<72850, 72871>>,
     <<72874, 72880>>, <<72882, 72883>>, <<72885, 72886>>, <<73009, 73014>>,
     <<73018, 73018>>, <<73020, 73021>>, <<73023, 73029>>, <<73031, 73031>>,
     <<73104, 73105>>, <<73109, 73109>>, <<73111, 73111>>, <<73459, 73460>>,
     <<78896, 78904>>, <<92912, 92916>>, <<92976, 92982>>, <<92992, 92995>>,
     <<94031, 94031>>, <<94095, 94111>>, <<94176, 94177>>, <<94179, 94180>>,
     <<110576, 110579>>, <<110581, 110587>>, <<110589, 110590>>,
     <<113821, 113822>>, <<113824, 113827>>, <<118528, 118573>>,
     <<118576, 118598>>, <<119143, 119145>>, <<119155, 119170>>,
     <<119173, 119179>>, <<119210, 119213>>, <<119362, 119364>>,
     <<121344, 121398>>, <<121403, 121452>>, <<121461, 121461>>,
     <<121476, 121476>>, <<121499, 121503>>, <<121505, 121519>>,
     <<122880, 122886>>, <<122888, 122904>>, <<122907, 122913>>,
     <<122915, 122916>>, <<122918, 122922>>, <<123184, 123197>>,
     <<123566, 123566>>, <<123628, 123631>>, <<125136, 125142>>,
     <<125252, 125259>>, <<127995, 127999>>, <<917505, 917505>>,
     <<917536, 917631>>, <<917760, 917999>>}

Cased == {Chr(n) : n \in Codes(CasedRuns)}

CaseIgnorable == {Chr(n) : n \in Codes(CaseIgnorableRuns)}

\* The greatest element of a non-empty set of integers.
Max(S) == CHOOSE x \in S : \A y \in S : x >= y

\* The capital sigma at s[i] ends a word: a cased character precedes it and
\* none follows it, case-ignorable characters skipped on both sides.
FinalSigma(s, i) ==
    LET before == {j \in 1..(i - 1) : s[j] \notin CaseIgnorable}
        after == {j \in (i + 1)..Len(s) : s[j] \notin CaseIgnorable}
    IN /\ before # {}
       /\ s[Max(before)] \in Cased
       /\ after # {} => s[Min(after)] \notin Cased

\* What str.lower() puts for the characters of s from s[i] on.
RECURSIVE LowerFrom(_, _)
LowerFrom(s, i) ==
    LET LowerAt ==
            IF s[i] = Chr(931)
            THEN <<IF FinalSigma(s, i) THEN Chr(962) ELSE Chr(963)>>
            ELSE IF s[i] \in DOMAIN ToLower THEN ToLower[s[i]] ELSE <<s[i]>>
    IN IF i > Len(s) THEN <<>> ELSE LowerAt \o LowerFrom(s, i + 1)

\* Python str.lower().
Lower(s) == LowerFrom(s, 1)

K_1 ==
    <<"a", "n", "a", "l", "y", "z", "e">>

K_2 ==
    <<"s", "u", "m", "m", "a", "r", "i", "z", "e">>

K_3 ==
    <<"s", "u", "m", "m", "a", "r", "y">>

K_4 ==
    <<"o", "v", "e", "r", "v", "i", "e", "w">>

K_5 ==
    <<"w", "h", "a", "t", " ", "i", "s", " ", "i", "n", " ", "t", "h", "i",
      "s">>

K_6 ==
    <<"e", "x", "p", "l", "a", "i", "n", " ", "t", "h", "i", "s", " ", "d",
      "o", "c", "u", "m", "e", "n", "t">>

\* analysis_keywords (line 421), in list order.
analysis_keywords == <<K_1, K_2, K_3, K_4, K_5, K_6>>

H_1 ==
    <<"P", "o", "w", "e", "r", "e", "d", " ", "b", "y", " ", "T", "C", "P",
      "D", "F">>

H_2 ==
    <<"w", "w", "w", ".", "t", "c", "p", "d", "f", ".", "o", "r", "g">>

H_3 ==
    <<"T", "C", "P", "D", "F">>

H_4 ==
    <<"G", "e", "n", "e", "r", "a", "t", "e", "d", " ", "b", "y">>

H_5 ==
    <<"D", "o", "c", "u", "m", "e", "n", "t", " ", "c", "r", "e", "a", "t",
      "e", "d">>

\* technical_headers (lines 398-404), in list order.
technical_headers == <<H_1, H_2, H_3, H_4, H_5>>

\* any(keyword in user_message.lower() for keyword in analysis_keywords)
WantsAnalysis(message) ==
    \E k \in 1..Len(analysis_keywords) :
        Contains(Lower(message), analysis_keywords[k])

\* Python s.replace(old, ""), from position `from`: the non-overlapping
\* occurrences of old, found left to right, are removed.
RECURSIVE RemoveAll(_, _, _)
RemoveAll(s, from, old) ==
    LET hits == {p \in from..(Len(s) - Len(old) + 1) : MatchAt(s, p, old)}
    IN IF hits = {} THEN Slice(s, from, Len(s))
       ELSE Slice(s, from, Min(hits) - 1)
                \o RemoveAll(s, Min(hits) + Len(old), old)

\* for header in technical_headers:
\*     clean_content = clean_content.replace(header, "").strip()
RECURSIVE StripHeaders(_, _)
StripHeaders(s, k) ==
    IF k > Len(technical_headers) THEN s
    ELSE StripHeaders(Strip(RemoveAll(s, 1, technical_headers[k])), k + 1)

\* Python s.replace(c + ' ', c + '\n') for a punctuation character c: the
\* space after every c becomes a line break.
BreakAfter(s, c) ==
    [k \in 1..Len(s) |->
        IF k > 1 /\ s[k] = " " /\ s[k - 1] = c THEN "\n" ELSE s[k]]

\* A faulty clean-up that rewrites only the runs of three or more line
\* breaks and leaves shorter runs as they are.
RECURSIVE BlankLinesLongRunsOnly(_, _)
BlankLinesLongRunsOnly(s, from) ==
    LET hits == {p \in from..Len(s) : s[p] = "\n"}
    IN IF hits = {} THEN Slice(s, from, Len(s))
       ELSE LET p == Min(hits)
                e == Min({q \in (p + 1)..(Len(s) + 1) :
                             q = Len(s) + 1 \/ s[q] # "\n"})
            IN Slice(s, from, p - 1)
                   \o (IF e - p >= 3 THEN <<"\n", "\n">> ELSE Slice(s, p, e - 1))
                   \o BlankLinesLongRunsOnly(s, e)

\* re.sub(r'\n+', '\n\n', s) from position `from`: every maximal run of line
\* breaks, a single one included, becomes exactly two.
RECURSIVE BlankLines(_, _)
BlankLines(s, from) ==
    LET hits == {p \in from..Len(s) : s[p] = "\n"}
    IN IF hits = {} THEN Slice(s, from, Len(s))
       ELSE LET p == Min(hits)
                e == Min({q \in (p + 1)..(Len(s) + 1) :
                             q = Len(s) + 1 \/ s[q] # "\n"})
            IN Slice(s, from, p - 1) \o <<"\n", "\n">> \o BlankLines(s, e)

\* Lines 395-415: clean_content as the rest of the function uses it.
CleanContent(content) ==
    LET a == StripHeaders(Strip(content), 1)
        b == CollapseWS(a)
        c == BreakAfter(BreakAfter(BreakAfter(b, "."), "!"), "?")
    IN Strip(BlankLines(c, 1))

\* len(s.split()): the number of maximal runs of non-whitespace.
WordCount(s) ==
    Cardinality({k \in 1..Len(s) :
                    s[k] \notin WS /\ (k = 1 \/ s[k - 1] \in WS)})

\* Slice bound of the analysis branch (lines 449-451).
AnalysisLimit == 2000

\* Slice bound of the extraction branch (lines 461-464).
ExtractionLimit == 3000

\* One piece of the returned string: which f-string of the source wrote it,
\* and the text or the number it interpolates.
Seg(kind, lit, text, n) == [seg |-> kind, lit |-> lit, text |-> text, n |-> n]

\* The content part of the analysis branch (lines 448-454).
AnalysisBody(clean_content) ==
    <<Seg("summary_heading", "Document Summary:", <<>>, 0),
      Seg("content_heading", "Extracted Content (first 2000 characters):",
          <<>>, 0)>>
    \o (IF Len(clean_content) > AnalysisLimit
        THEN <<Seg("content", "", Prefix(clean_content, AnalysisLimit), 0),
               Seg("more", "... and {n} more characters", <<>>,
                   Len(clean_content) - AnalysisLimit),
               Seg("tip", "Ask me to 'summarize this document'", <<>>, 0)>>
        ELSE <<Seg("content", "", clean_content, 0)>>)

\* A faulty extraction branch that shows the whole content whatever its length.
ExtractionBodyUncut(clean_content) ==
    <<Seg("content_heading", "Extracted Content:", <<>>, 0),
      Seg("content", "", clean_content, 0)>>

\* The content part of the extraction branch (lines 461-468).
ExtractionBody(clean_content) ==
    IF Len(clean_content) > ExtractionLimit
    THEN <<Seg("content_heading",
               "Extracted Content (showing first 3000 characters):", <<>>, 0),
           Seg("content", "", Prefix(clean_content, ExtractionLimit), 0),
           Seg("more", "... and {n} more characters", <<>>,
               Len(clean_content) - ExtractionLimit),
           Seg("tip", "Ask me to 'analyze this document'", <<>>, 0)>>
    ELSE <<Seg("content_heading", "Extracted Content:", <<>>, 0),
           Seg("content", "", clean_content, 0)>>

\* A faulty footer that is never written.
FooterMissing(clean_content, method) == <<>>

\* A faulty footer that counts the part shown under analysis intent only.
FooterOfShownPart(clean_content, method) ==
    <<Seg("stats_heading", "Document Statistics:", <<>>, 0),
      Seg("stats_chars", "Characters: {n}", <<>>,
          Len(Prefix(clean_content, AnalysisLimit))),
      Seg("stats_words", "Words: {n}", <<>>,
          WordCount(Prefix(clean_content, AnalysisLimit))),
      Seg("stats_method", method, <<>>, 0)>>

\* The statistics footer (lines 471-475).
Footer(clean_content, method) ==
    <<Seg("stats_heading", "Document Statistics:", <<>>, 0),
      Seg("stats_chars", "Characters: {n}", <<>>, Len(clean_content)),
      Seg("stats_words", "Words: {n}", <<>>, WordCount(clean_content)),
      Seg("stats_method", method, <<>>, 0)>>

\* The returned string, as the sequence of its pieces in order.  The except
\* branch at lines 456-458 guards statements that cannot raise and is left
\* out.
_format_document_response(content, message, method) ==
    LET clean_content == CleanContent(content)
    IN <<Seg("title", method, <<>>, 0)>>
       \o (IF WantsAnalysis(message)
           THEN AnalysisBody(clean_content)
           ELSE ExtractionBody(clean_content))
       \o Footer(clean_content, method)

-----------------------------------------------------------------------------
(* DoclingAgent.process_document and _fallback_document_processing         *)

\* prompts (lines 603-609).
prompts == <<<<>>, <<"E", "x", "t", "r", "a", "c", "t">>, <<"D", "o", "c", "u", "m", "e", "n", "t">>>>

\* The floor of the primary selection, line 646.
Floor == 50

\* The floor of the router fallback, line 690.
FallbackFloor == 50

\* The fixed message of line 696.
UnreadableMessage ==
    <<Seg("unreadable",
          "I could only extract technical headers from this document. The document might be: An image without readable text / A corrupted file / A file format not supported by the model",
          <<>>, 0)>>

\* The message of process_document's own handler, line 308.
ErrorMessage == <<Seg("error", "Error processing document: {e}", <<>>, 0)>>

\* A backend reply: the call raised (transport error, non-2xx status, bad
\* JSON), or it returned the text of the 'response' field.
Failed == [ok |-> FALSE, text |-> <<>>]

Reply(text) == [ok |-> TRUE, text |-> text]

\* The replies the backend is taken to give.
ReplyTexts ==
    {<<>>,
     <<" ", " ", "a", "b", " ">>,
     <<Chr(160)>> \o Repeat(<<"x">>, Floor) \o <<Chr(11)>>,
     <<" ">> \o Repeat(<<"x">>, Floor + 1) \o <<"\n">>,
     Repeat(<<"y">>, Floor + 1),
     Repeat(<<"l", "i", "n", "e", " ", "a", "\n">>, 9),
     Open(N_title) \o <<"T">> \o Close(N_title) \o Open(N_text)
         \o Repeat(<<"w", " ">>, 20) \o Close(N_text),
     Repeat(<<"<", "l", "o", "c", "_", "1", ">">>, 8),
     <<"<", "d", "o", "c", ">">> \o Repeat(<<"z", " ", " ">>, 20),
     Open(N_otsl) \o Open(N_ched) \o <<"H">> \o Open(N_ched) \o <<"I">>
         \o Open(N_nl) \o Open(N_fcel) \o <<"A">> \o Open(N_nl)
         \o Open(N_fcel) \o <<"A">> \o Open(N_fcel) \o <<"B">>
         \o Open(N_fcel) \o <<"C">> \o Close(N_otsl),
     Repeat(<<"<", "x", ">", "z", " ", "\n">>, 10),
     Repeat(Open(N_text) \o <<"d", "u", "p">> \o Close(N_text) \o <<"\n">>, 4),
     Open(N_text) \o Repeat(<<"s">>, Floor) \o <<Chr(56448)>> \o Close(N_text)}

Replies == {Failed} \cup {Reply(t) : t \in ReplyTexts}

\* The messages a request is taken to carry.
M_extract ==
    <<"e", "x", "t", "r", "a", "c", "t", " ", "t", "e", "x", "t">>

M_summarize ==
    <<"S", "u", "m", "m", "a", "r", "i", "z", "e", " ", "t", "h", "i", "s">>

Messages == {M_extract, M_summarize}

\* The requests in flight.
Requests == DOMAIN pc

\* The replies taken when two requests are in flight: a failure and two
\* different texts above the floor.
ConcurrentReplies ==
    {Failed,
     Reply(Repeat(<<"y">>, Floor + 1)),
     Reply(Open(N_title) \o <<"T">> \o Close(N_title) \o Open(N_text)
               \o Repeat(<<"w", " ">>, 20) \o Close(N_text))}

\* The replies a backend call of the current run can get.
RepliesNow == IF Cardinality(Requests) > 1 THEN ConcurrentReplies ELSE Replies

Init ==
    /\ pc = [r \in {1} |-> "start"]
    /\ idx = [r \in {1} |-> 0]
    /\ best_result = [r \in {1} |-> <<>>]
    /\ best_length = [r \in {1} |-> 0]
    /\ user_message \in [{1} -> Messages]
    /\ calls = [r \in {1} |-> <<>>]
    /\ ret = [r \in {1} |-> <<>>]
    /\ last_raw_output = [set |-> FALSE, value |-> <<>>]
    /\ fn_pc = 0
    /\ fn_in = [fn |-> "none"]
    /\ fn_out = <<>>

\* The record of one backend call: the model asked, the prompt (its index
\* in prompts, 0 for the router's prompt) and the reply.
Call(model, k, reply) == [model |-> model, prompt |-> k, reply |-> reply]

\* A faulty comparison that lets a later candidate of equal length win.
IsLongerOrEqual(output, length) == Len(output) >= length

\* if len(output) > best_length   (line 638)
IsLonger(output, length) == Len(output) > length

\* A faulty floor test that accepts a candidate of exactly Floor characters.
AboveFloorInclusive(s) == s # <<>> /\ Len(s) >= Floor

\* if best_result and len(best_result) > 50   (line 646)
AboveFloor(s) == s # <<>> /\ Len(s) > Floor

\* if '<' in best_result and '>' in best_result   (line 651)
LooksTagged(s) == HasChar(s, "<") /\ HasChar(s, ">")

\* A faulty post-processing that de-duplicates the parser's output as well.
ContentOfAlwaysDeduped(best) ==
    IF LooksTagged(best)
    THEN _remove_duplicates(_parse_doctags_to_text(best))
    ELSE _remove_duplicates(best)

\* Lines 650-663: tagged output is parsed, untagged output is de-duplicated.
ContentOf(best) ==
    IF LooksTagged(best)
    THEN _parse_doctags_to_text(best)
    ELSE _remove_duplicates(best)

\* The method label passed with it (lines 659, 663).
MethodOf(best) ==
    IF LooksTagged(best)
    THEN "DocTags Parsing (Granite-Docling)"
    ELSE "Granite-Docling Processing"

\* Lines 646-663: the selected candidate is rendered and returned.
RenderBest(best, message) ==
    _format_document_response(ContentOf(best), message, MethodOf(best))

\* Line 653: a tagged candidate's first 500 characters are printed before it
\* is parsed.  The print raises UnicodeEncodeError when the standard output
\* cannot encode one of them: any surrogate under the handler strict, any
\* surrogate but U+DC80 to U+DCFF, which stand for escaped bytes, under
\* surrogateescape.
PrintRaises(best, errors) ==
    LET unencodable ==
            IF errors = "surrogateescape"
            THEN Surrogates \ {Chr(n) : n \in 56448..56575}
            ELSE Surrogates
    IN /\ LooksTagged(best)
       /\ \E k \in 1..Len(Prefix(best, 500)) : best[k] \in unencodable

\* Whether the print of line 653 raises, for each standard output the
\* process can have.
PrintOutcomes(best) == {PrintRaises(best, errors) : errors \in StdoutErrors}

\* Lines 650-663 with the handler of lines 306-308: what process_document
\* returns for a candidate above the floor, the handler's error message when
\* the print raised.
ReturnOf(best, message, raised) ==
    IF raised THEN ErrorMessage ELSE RenderBest(best, message)

\* The code after the loop, up to the return or to the router's call
\* (lines 646-683), for request r whose candidate is best.  A request
\* prints at most one candidate, so the choice of the outcome of that print
\* stands for the choice of the standard output of the run.
AfterLoop(r, best) ==
    IF AboveFloor(best)
    THEN /\ last_raw_output' = [set |-> TRUE, value |-> best]
         /\ \E raised \in PrintOutcomes(best) :
               ret' = [ret EXCEPT ![r] = ReturnOf(best, user_message[r], raised)]
         /\ pc' = [pc EXCEPT ![r] = "done"]
    ELSE /\ pc' = [pc EXCEPT ![r] = "secondary"]
         /\ UNCHANGED <<ret, last_raw_output>>

\* A faulty loop that a failed attempt ends.
LoopGoesOnUnlessFailed(r, reply) == reply.ok /\ idx[r] + 1 < Len(prompts)

\* A faulty loop that the first successful attempt ends.
LoopStopsAtFirstReply(r, reply) == ~reply.ok /\ idx[r] + 1 < Len(prompts)

\* for i, prompt in enumerate(prompts), with `continue` in the handler of
\* lines 642-644: the next prompt is tried whatever the reply was.
LoopGoesOn(r, reply) == idx[r] + 1 < Len(prompts)

\* Lines 632-644: best_result and best_length after one reply.  A reply's
\* text is stripped and kept when it is longer than the best so far; a
\* failure leaves both as they are.
BestAfter(r, reply) ==
    LET output == Strip(reply.text)
    IN IF reply.ok /\ IsLonger(output, best_length[r])
       THEN [result |-> output, length |-> Len(output)]
       ELSE [result |-> best_result[r], length |-> best_length[r]]

\* process_document up to the first backend call (lines 292-304, 611-629):
\* the file is read, or open() raises and the handler of line 306 returns.
ProcessDocument(r) ==
    /\ pc[r] = "start"
    /\ \E readable \in BOOLEAN :
          IF readable
          THEN /\ pc' = [pc EXCEPT ![r] = "primary"]
               /\ UNCHANGED ret
          ELSE /\ pc' = [pc EXCEPT ![r] = "done"]
               /\ ret' = [ret EXCEPT ![r] = ErrorMessage]
    /\ UNCHANGED <<idx, best_result, best_length, user_message, calls,
                   last_raw_output, fnVars>>

\* One iteration of the loop over prompts, from the reply to the next posted
\* request (lines 629-644), and the code after the loop when it was the last.
PrimaryAttempt(r) ==
    /\ pc[r] = "primary"
    /\ \E reply \in RepliesNow :
          LET best == BestAfter(r, reply)
          IN /\ calls' = [calls EXCEPT
                             ![r] = Append(@, Call("docling", idx[r] + 1, reply))]
             /\ best_result' = [best_result EXCEPT ![r] = best.result]
             /\ best_length' = [best_length EXCEPT ![r] = best.length]
             /\ IF LoopGoesOn(r, reply)
                THEN /\ idx' = [idx EXCEPT ![r] = idx[r] + 1]
                     /\ UNCHANGED <<pc, ret, last_raw_output>>
                ELSE /\ idx' = idx
                     /\ AfterLoop(r, best.result)
    /\ UNCHANGED <<user_message, fnVars>>

\* A faulty handler that lets the router's failure leave the function, so
\* that process_document's handler answers.
OnSecondaryFailureRaise(r) == ret' = [ret EXCEPT ![r] = ErrorMessage]

\* except Exception (lines 693-694), then the return of line 696.
OnSecondaryFailure(r) == ret' = [ret EXCEPT ![r] = UnreadableMessage]

\* A faulty fallback that de-duplicates the router's text before rendering.
OnSecondaryReplyDeduped(r, text) ==
    LET fallback_output == Strip(text)
    IN IF Len(fallback_output) > FallbackFloor
       THEN ret' = [ret EXCEPT ![r] =
                       _format_document_response(
                           _remove_duplicates(fallback_output),
                           user_message[r], "Router Model Fallback")]
       ELSE ret' = [ret EXCEPT ![r] = UnreadableMessage]

\* Lines 686-696: the router's text is stripped and rendered when it is
\* longer than the floor.
OnSecondaryReply(r, text) ==
    LET fallback_output == Strip(text)
    IN IF Len(fallback_output) > FallbackFloor
       THEN ret' = [ret EXCEPT ![r] =
                       _format_document_response(fallback_output,
                                                 user_message[r],
                                                 "Router Model Fallback")]
       ELSE ret' = [ret EXCEPT ![r] = UnreadableMessage]

\* The router fallback, from its reply to the return (lines 683-696).
SecondaryAttempt(r) ==
    /\ pc[r] = "secondary"
    /\ \E reply \in RepliesNow :
          /\ calls' = [calls EXCEPT ![r] = Append(@, Call("router", 0, reply))]
          /\ IF reply.ok
             THEN OnSecondaryReply(r, reply.text)
             ELSE OnSecondaryFailure(r)
    /\ pc' = [pc EXCEPT ![r] = "done"]
    /\ UNCHANGED <<idx, best_result, best_length, user_message,
                   last_raw_output, fnVars>>

Next ==
    \/ \E r \in Requests : ProcessDocument(r)
    \/ \E r \in Requests : PrimaryAttempt(r)
    \/ \E r \in Requests : SecondaryAttempt(r)

Spec == Init /\ [][Next]_vars

\* The control point of every request: the statement it waits at and the
\* position of the loop over prompts.
ctl == <<pc, idx>>

\* The event loop resumes request r: its control point moves as the code's
\* control flow allows (lines 292-306, the loop of lines 614-644, the tests
\* of lines 646 and 690), whatever the reply and the strings computed from it.
Resumed(r) ==
    \/ /\ pc[r] = "start"
       /\ \E p \in {"primary", "done"} : pc' = [pc EXCEPT ![r] = p]
       /\ idx' = idx
    \/ /\ pc[r] = "primary"
       /\ idx[r] + 1 < Len(prompts)
       /\ idx' = [idx EXCEPT ![r] = idx[r] + 1]
       /\ pc' = pc
    \/ /\ pc[r] = "primary"
       /\ ~(idx[r] + 1 < Len(prompts))
       /\ \E p \in {"secondary", "done"} : pc' = [pc EXCEPT ![r] = p]
       /\ idx' = idx
    \/ /\ pc[r] = "secondary"
       /\ pc' = [pc EXCEPT ![r] = "done"]
       /\ idx' = idx

\* Every backend call ends: ollama_client is httpx.AsyncClient(timeout=120.0)
\* (line 80), so the awaited post of lines 629 and 683 returns or raises, and
\* the event loop then resumes the request.  Every step of Next moves the
\* control point of its request, so the fairness is stated on the control
\* point alone.
SpecLive == Init /\ [][Next]_vars /\ WF_ctl(Resumed(1))

\* Two requests served by the one event loop: both call
\* docling_agent.process_document (line 977) on the module-level agent of
\* line 906, and the loop switches between them at every await.
InitConcurrent ==
    /\ pc = [r \in {1, 2} |-> "start"]
    /\ idx = [r \in {1, 2} |-> 0]
    /\ best_result = [r \in {1, 2} |-> <<>>]
    /\ best_length = [r \in {1, 2} |-> 0]
    /\ user_message \in [{1, 2} -> Messages]
    /\ calls = [r \in {1, 2} |-> <<>>]
    /\ ret = [r \in {1, 2} |-> <<>>]
    /\ last_raw_output = [set |-> FALSE, value |-> <<>>]
    /\ fn_pc = 0
    /\ fn_in = [fn |-> "none"]
    /\ fn_out = <<>>

SpecConcurrent == InitConcurrent /\ [][Next]_vars

-----------------------------------------------------------------------------
(* Harness for the pure functions: an argument drawn from a bounded set,   *)
(* and one action per application.                                         *)

\* All sequences over S of length at most n.
SeqsUpTo(S, n) == UNION {[1..k -> S] : k \in 0..n}

MaxLines == 3

DedupLines == {<<"a">>, <<" ", "a">>, <<"a", " ">>, <<"b">>, <<>>}

DedupInputs == {Join(ls, <<"\n">>) : ls \in SeqsUpTo(DedupLines, MaxLines)}

MaxPieces == 4

TablePieces ==
    {Open(N_ched) \o <<"H">>,
     Open(N_fcel) \o <<"A">>,
     Open(N_lcel) \o <<" ", "B">>,
     Open(N_fcel),
     Open(N_nl),
     <<"<", "e", "c", "e", "l", ">">>}

TableInputs ==
    {Open(N_otsl) \o Flatten(ps) \o Close(N_otsl) :
        ps \in SeqsUpTo(TablePieces, MaxPieces)}

MaxPlain == 3

PlainPieces ==
    {<<"a">>, <<" ">>, <<"\n">>, <<"<", "x", ">">>, <<"<">>, <<">">>,
     Open(N_title), Close(N_title)}

PlainInputs == {Flatten(ps) : ps \in SeqsUpTo(PlainPieces, MaxPlain)}

\* Two ragged tables: the one of the specification's example (names cut to
\* one letter), and one whose rows are both shorter and longer than its header.
ExampleInputs ==
    {Open(N_table) \o Open(N_ched) \o <<"N">> \o Open(N_ched) \o <<"A">>
         \o Open(N_nl) \o Open(N_fcel) \o <<"a">> \o Open(N_fcel) \o <<"3">>
         \o Open(N_nl) \o Open(N_fcel) \o <<"b">> \o Close(N_table),
     Open(N_otsl) \o Open(N_fcel) \o <<"p">> \o Open(N_fcel) \o <<"q">>
         \o Open(N_nl) \o Open(N_lcel) \o <<"r">> \o Open(N_nl)
         \o Open(N_fcel) \o <<"s">> \o Open(N_cell) \o <<"t">>
         \o Open(N_fcel) \o <<"u">> \o Close(N_otsl)}

ParseInputs == TableInputs \cup PlainInputs \cup ExampleInputs

\* The pipeline is idle while a pure function is exercised.
PipeIdle ==
    /\ pc = <<>>
    /\ idx = <<>>
    /\ best_result = <<>>
    /\ best_length = <<>>
    /\ user_message = <<>>
    /\ calls = <<>>
    /\ ret = <<>>
    /\ last_raw_output = [set |-> FALSE, value |-> <<>>]

InitDedup ==
    /\ PipeIdle
    /\ fn_pc = 0
    /\ fn_in \in {[fn |-> "dedupe", arg |-> t] : t \in DedupInputs}
    /\ fn_out = <<>>

\* cleaned_result = self._remove_duplicates(text)
DedupOnce ==
    /\ fn_in.fn = "dedupe"
    /\ fn_pc = 0
    /\ fn_pc' = 1
    /\ fn_out' = <<_remove_duplicates(fn_in.arg)>>
    /\ UNCHANGED <<fn_in, pipeVars>>

\* self._remove_duplicates(cleaned_result)
DedupAgain ==
    /\ fn_in.fn = "dedupe"
    /\ fn_pc = 1
    /\ fn_pc' = 2
    /\ fn_out' = Append(fn_out, _remove_duplicates(fn_out[1]))
    /\ UNCHANGED <<fn_in, pipeVars>>

NextDedup == DedupOnce \/ DedupAgain

SpecDedup == InitDedup /\ [][NextDedup]_vars

InitParse ==
    /\ PipeIdle
    /\ fn_pc = 0
    /\ fn_in \in {[fn |-> "parse", arg |-> t] : t \in ParseInputs}
    /\ fn_out = <<>>

\* structured_content = self._parse_doctags_to_text(doctags_text)
ParseOnce ==
    /\ fn_in.fn = "parse"
    /\ fn_pc = 0
    /\ fn_pc' = 1
    /\ fn_out' = <<ParseDoctags(fn_in.arg)>>
    /\ UNCHANGED <<fn_in, pipeVars>>

NextParse == ParseOnce

SpecParse == InitParse /\ [][NextParse]_vars

MaxSpans == 3

\* One well-formed span per tag family, two for the titles and the section
\* headers: the markup, the position of its family in the scan (title,
\* section headers level 1 to 5, table/otsl, text, unordered list, ordered
\* list), and the blocks the source's f-strings write for it.
FamilySpans ==
    <<[rank |-> 1,
       markup |-> Open(N_title) \o <<"t">> \o Close(N_title),
       blocks |-> << <<"#", " ", "t", "\n">> >>],
      [rank |-> 1,
       markup |-> Open(N_title) \o <<" ", "u">> \o Close(N_title),
       blocks |-> << <<"#", " ", "u", "\n">> >>],
      [rank |-> 2,
       markup |-> Open(N_section_header(1)) \o <<"r">>
                      \o Close(N_section_header(1)),
       blocks |-> << <<"#", "#", " ", "r", "\n">> >>],
      [rank |-> 6,
       markup |-> Open(N_section_header(5)) \o <<"s">>
                      \o Close(N_section_header(5)),
       blocks |-> << <<"#", "#", "#", "#", "#", "#", " ", "s", "\n">> >>],
      [rank |-> 7,
       markup |-> Open(N_otsl) \o Open(N_fcel) \o <<"c">> \o Close(N_otsl),
       blocks |-> <<TableCaption, <<"|", " ", "c", " ", "|">>,
                    <<"|", "-", "-", "-", "|">>, <<"\n">> >>],
      [rank |-> 8,
       markup |-> Open(N_text) \o <<"x">> \o Close(N_text),
       blocks |-> << <<"x", "\n">> >>],
      [rank |-> 9,
       markup |-> Open(N_unordered_list) \o Open(N_list_item) \o <<"i">>
                      \o Close(N_list_item) \o Close(N_unordered_list),
       blocks |-> << <<Bullet, " ", "i">>, <<"\n">> >>],
      [rank |-> 10,
       markup |-> Open(N_ordered_list) \o Open(N_list_item) \o <<"j">>
                      \o Close(N_list_item) \o Open(N_list_item) \o <<"k">>
                      \o Close(N_list_item) \o Close(N_ordered_list),
       blocks |-> << <<"1", ".", " ", "j">>, <<"2", ".", " ", "k">>,
                    <<"\n">> >>]>>

\* The inputs of the family scan: up to MaxSpans spans in any order, by their
\* positions in FamilySpans.
FamilyInputs == SeqsUpTo(1..Len(FamilySpans), MaxSpans)

MarkupOf(spans) == Flatten([k \in 1..Len(spans) |-> FamilySpans[spans[k]].markup])

InitFamilies ==
    /\ PipeIdle
    /\ fn_pc = 0
    /\ fn_in \in {[fn |-> "parse", arg |-> MarkupOf(spans), spans |-> spans] :
                     spans \in FamilyInputs}
    /\ fn_out = <<>>

SpecFamilies == InitFamilies /\ [][NextParse]_vars

MaxTags == 3

\* Openers and closers of the table, otsl and text families, a cell, and a
\* closer of another family.
TagPieces ==
    {Open(N_table), Open(N_otsl), Close(N_table), Close(N_otsl),
     Open(N_fcel) \o <<"c">>, Open(N_text) \o <<"x">>, Close(N_text),
     Close(N_title)}

\* Inputs whose openers meet closers of the same or of another name, or none.
CloserInputs == {Flatten(ps) : ps \in SeqsUpTo(TagPieces, MaxTags)}

InitClosers ==
    /\ PipeIdle
    /\ fn_pc = 0
    /\ fn_in \in {[fn |-> "parse", arg |-> t] : t \in CloserInputs}
    /\ fn_out = <<>>

SpecClosers == InitClosers /\ [][NextParse]_vars

FormatSlack == 3

FormatPrefixes ==
    {<<>>,
     <<"a", ".", " ", "b", " ">>,
     <<" ", "T", "C", "P", "D", "F">>,
     <<"x", "\n", "\n", "\n", "y", "!", " ", " ">>,
     <<"T", "C">> \o H_3 \o <<"P", "D", "F", " ">>,
     <<"G", "e", "n", "e", "r", "a", "t", "e", "d", "\n", "b", "y", " ">>,
     <<Chr(160), "a", ".", Chr(11), Chr(8232), "b", " ">>}

FormatLengths ==
    (0..FormatSlack)
        \cup ((AnalysisLimit - FormatSlack)..(AnalysisLimit + FormatSlack))
        \cup ((ExtractionLimit - FormatSlack)..(ExtractionLimit + FormatSlack))

FormatInputs ==
    {p \o Repeat(<<"x">>, n) : p \in FormatPrefixes, n \in FormatLengths}

InitFormat ==
    /\ PipeIdle
    /\ fn_pc = 0
    /\ fn_in \in {[fn |-> "format", arg |-> t, msg |-> m] :
                     t \in FormatInputs, m \in Messages}
    /\ fn_out = <<>>

\* self._format_document_response(content, user_message, method)
FormatOnce ==
    /\ fn_in.fn = "format"
    /\ fn_pc = 0
    /\ fn_pc' = 1
    /\ fn_out' = <<_format_document_response(fn_in.arg, fn_in.msg,
                                              "Granite-Docling Processing")>>
    /\ UNCHANGED <<fn_in, pipeVars>>

NextFormat == FormatOnce

SpecFormat == InitFormat /\ [][NextFormat]_vars

\* Contents for the comparison of the two intents: a run of x around each
\* slice bound, with or without sentences before it and words after it.
IntentInputs ==
    {p \o Repeat(<<"x">>, n) \o q :
        p \in {<<>>, <<"a", ".", " ", "b", " ">>},
        n \in FormatLengths,
        q \in {<<>>, <<" ", "e", " ", "f">>}}

InitIntents ==
    /\ PipeIdle
    /\ fn_pc = 0
    /\ fn_in \in {[fn |-> "format", arg |-> t, msg |-> m] :
                     t \in IntentInputs, m \in Messages}
    /\ fn_out = <<>>

\* The message of the other intent.
OtherMessage(message) == CHOOSE m \in Messages : m # message

\* self._format_document_response(content, user_message, method) for the
\* same content and a message of the other intent.
FormatOtherIntent ==
    /\ fn_in.fn = "format"
    /\ fn_pc = 1
    /\ fn_pc' = 2
    /\ fn_out' = Append(fn_out,
                        _format_document_response(fn_in.arg,
                                                  OtherMessage(fn_in.msg),
                                                  "Granite-Docling Processing"))
    /\ UNCHANGED <<fn_in, pipeVars>>

NextIntents == FormatOnce \/ FormatOtherIntent

SpecIntents == InitIntents /\ [][NextIntents]_vars

-----------------------------------------------------------------------------
(* Properties                                                              *)

\* The piece of a returned string written by the f-string `kind`.
SegOf(out, kind) == out[CHOOSE k \in 1..Len(out) : out[k].seg = kind]

HasSeg(out, kind) == \E k \in 1..Len(out) : out[k].seg = kind

\* The calls request r made to the document model and to the router.
PrimaryCalls(r) == SelectSeq(calls[r], LAMBDA c : c.model = "docling")

RouterCalls(r) == SelectSeq(calls[r], LAMBDA c : c.model = "router")

\* C1: in every table reconstructed by _parse_doctags_to_text, every data row
\* ends with at least as many cells as the header row; a row that was shorter
\* than the header is its own cells followed by empty cells up to exactly the
\* header's length; a row that was not shorter keeps all its cells unchanged;
\* and the row is rendered with those cells.
C1_RowsPaddedNeverCut ==
    fn_pc = 1 =>
        \A t \in 1..Len(fn_out[1].tables) :
            LET raw == fn_out[1].tables[t].table_rows
                pad == fn_out[1].tables[t].padded
            IN /\ Len(pad) = Len(raw)
               /\ \A k \in 2..Len(raw) :
                     /\ Len(pad[k]) >= Len(pad[1])
                     /\ Len(pad[k]) >= Len(raw[k])
                     /\ SubSeq(pad[k], 1, Len(raw[k])) = raw[k]
                     /\ \A j \in (Len(raw[k]) + 1)..Len(pad[k]) : pad[k][j] = <<>>
                     /\ Len(raw[k]) < Len(raw[1]) => Len(pad[k]) = Len(raw[1])
                     /\ Len(raw[k]) >= Len(raw[1]) => pad[k] = raw[k]
                     /\ RenderRow(pad[k]) \in Range(fn_out[1].result)

\* C1 witness: a parsed table with a row shorter than its header, padded, and
\* a row longer than its header, kept whole.
C1_Witness ==
    /\ fn_pc = 1
    /\ \E t \in 1..Len(fn_out[1].tables) :
          LET raw == fn_out[1].tables[t].table_rows
              pad == fn_out[1].tables[t].padded
          IN \E k, m \in 2..Len(raw) :
                /\ Len(raw[k]) < Len(raw[1])
                /\ Len(pad[k]) = Len(raw[1])
                /\ Len(raw[m]) > Len(raw[1])
                /\ pad[m] = raw[m]

\* The candidates of request r's primary attempts so far that succeeded, by
\* attempt number.
Succeeded(r) == {k \in 1..Len(PrimaryCalls(r)) : PrimaryCalls(r)[k].reply.ok}

Candidate(r, k) == Strip(PrimaryCalls(r)[k].reply.text)

\* C2: at every point of the selection, the kept candidate is the trimmed
\* output of a successful attempt that no successful attempt exceeds in
\* length, and among the successful attempts of that length it is the
\* earliest; with no successful attempt nothing is kept.
C2_KeepsEarliestLongest ==
    \A r \in Requests :
        /\ Succeeded(r) = {} => best_result[r] = <<>>
        /\ Succeeded(r) # {} =>
              \E k \in Succeeded(r) :
                  /\ best_result[r] = Candidate(r, k)
                  /\ best_length[r] = Len(Candidate(r, k))
                  /\ \A j \in Succeeded(r) :
                        /\ Len(Candidate(r, j)) <= Len(Candidate(r, k))
                        /\ Len(Candidate(r, j)) = Len(Candidate(r, k)) => k <= j

\* C2 witness: the selection is over, two successful candidates of equal,
\* maximal length differ, and the earlier one is kept.
C2_Witness ==
    \E r \in Requests :
        /\ pc[r] = "done"
        /\ \E j, k \in Succeeded(r) :
              /\ j < k
              /\ Len(Candidate(r, j)) = Len(Candidate(r, k))
              /\ Candidate(r, j) # Candidate(r, k)
              /\ \A m \in Succeeded(r) : Len(Candidate(r, m)) <= Len(Candidate(r, j))
              /\ best_result[r] = Candidate(r, j)

\* The slice bound that applies to the harness's message.
LimitOf(message) ==
    IF message = M_summarize THEN AnalysisLimit ELSE ExtractionLimit

\* C3: the content shown before the footer is never longer than 3000
\* characters under extraction intent and 2000 under analysis intent; content
\* not longer than the bound is shown whole (its length is the footer's
\* character count) with no truncation notice, and longer content is cut to
\* exactly the bound with the omitted count stated.
C3_ShownContentBounded ==
    fn_pc = 1 =>
        LET out == fn_out[1]
            shown == SegOf(out, "content").text
            chars == SegOf(out, "stats_chars").n
            limit == LimitOf(fn_in.msg)
        IN /\ Len(shown) <= limit
           /\ chars <= limit =>
                 /\ shown = CleanContent(fn_in.arg)
                 /\ Len(shown) = chars
                 /\ ~HasSeg(out, "more")
                 /\ ~HasSeg(out, "tip")
           /\ chars > limit =>
                 /\ Len(shown) = limit
                 /\ HasSeg(out, "more")
                 /\ SegOf(out, "more").n = chars - limit

\* C3 witness: extraction intent, cleaned content longer than 3000
\* characters, exactly 3000 shown.
C3_Witness ==
    /\ fn_pc = 1
    /\ fn_in.msg = M_extract
    /\ SegOf(fn_out[1], "stats_chars").n > ExtractionLimit
    /\ Len(SegOf(fn_out[1], "content").text) = ExtractionLimit

\* C4: _remove_duplicates applied to its own output returns that output.
C4_DedupIdempotent == fn_pc = 2 => fn_out[2] = fn_out[1]

\* C4 witness: the first application removed something and the second
\* returned its argument.
C4_Witness ==
    /\ fn_pc = 2
    /\ fn_out[1] # fn_in.arg
    /\ fn_out[1] # <<>>
    /\ fn_out[2] = fn_out[1]

\* The characters of s that are not whitespace, in order.
NonWS(s) == SelectSeq(s, LAMBDA c : c \notin WS)

\* C5 as stated: when no span was recognized, the raw text returned is the
\* trimmed input (here for inputs without any tag character), and there is no
\* heading, table or list content.
C5_RawTextIsTrimmedInput ==
    (fn_pc = 1 /\ ~fn_out[1].found_content /\ ~HasChar(fn_in.arg, "<")) =>
        /\ fn_out[1].text = Strip(fn_in.arg)
        /\ fn_out[1].result = <<>>

\* C5 amended: when no span was recognized, _parse_doctags_to_text produces
\* no heading, table or list content and returns one raw text that holds no
\* tag and no whitespace but single spaces between words; for an input
\* without any '<' that text is the input's words in order, joined by single
\* spaces, so it is the trimmed input exactly when the input's inner
\* whitespace is single spaces.
C5_RawTextNormalized ==
    (fn_pc = 1 /\ ~fn_out[1].found_content) =>
        LET text == fn_out[1].text
        IN /\ fn_out[1].result = <<>>
           /\ \A t \in 1..Len(fn_out[1].tables) :
                 fn_out[1].tables[t].table_rows = <<>>
           /\ \A k \in 1..Len(text) : text[k] \in WS => text[k] = " "
           /\ \A k \in 1..(Len(text) - 1) : ~(text[k] = " " /\ text[k + 1] = " ")
           /\ text # <<>> => (text[1] # " " /\ text[Len(text)] # " ")
           /\ SubTags(text, 1) = text
           /\ ~HasChar(fn_in.arg, "<") =>
                 /\ NonWS(text) = NonWS(fn_in.arg)
                 /\ WordCount(text) = WordCount(fn_in.arg)

\* C5 witness: an input with a tag and a line break but no recognized span,
\* returned as raw text that differs from the trimmed input.
C5_Witness ==
    /\ fn_pc = 1
    /\ ~fn_out[1].found_content
    /\ HasChar(fn_in.arg, "<")
    /\ HasChar(fn_in.arg, "\n")
    /\ fn_out[1].text # <<>>
    /\ fn_out[1].text # Strip(fn_in.arg)

\* A reply at or below the floor, or no reply at all.
LowReply(reply) == ~reply.ok \/ Len(Strip(reply.text)) <= Floor

\* C6: when all three primary attempts and the router attempt failed or gave
\* at most 50 characters, process_document returns the fixed Unreadable
\* message; every finished request has returned a string; and the error
\* message of process_document's exception handler is returned only when no
\* attempt was made at all or when printing the selected candidate raised,
\* so no failure of an attempt reaches that handler.
C6_ExhaustionReturnsUnreadable ==
    \A r \in Requests :
        /\ (/\ pc[r] = "done"
            /\ Len(PrimaryCalls(r)) = Len(prompts)
            /\ \A k \in 1..Len(PrimaryCalls(r)) : LowReply(PrimaryCalls(r)[k].reply)
            /\ Len(RouterCalls(r)) = 1
            /\ LowReply(RouterCalls(r)[1].reply))
              => ret[r] = UnreadableMessage
        /\ pc[r] = "done" => ret[r] # <<>>
        /\ (pc[r] = "done" /\ ret[r] = ErrorMessage) =>
              \/ calls[r] = <<>>
              \/ /\ Len(PrimaryCalls(r)) = Len(prompts)
                 /\ RouterCalls(r) = <<>>
                 /\ TRUE \in PrintOutcomes(best_result[r])
        /\ (pc[r] = "done" /\ ret[r] = UnreadableMessage) =>
              Len(RouterCalls(r)) = 1

\* C6 witness: every attempt raised and the Unreadable message was returned.
C6_Witness ==
    \E r \in Requests :
        /\ pc[r] = "done"
        /\ Len(calls[r]) = Len(prompts) + 1
        /\ \A k \in 1..Len(calls[r]) : ~calls[r][k].reply.ok
        /\ ret[r] = UnreadableMessage

\* The returned string ends with the statistics footer.
EndsWithFooter(out) ==
    /\ Len(out) >= 4
    /\ out[Len(out) - 3].seg = "stats_heading"
    /\ out[Len(out) - 2].seg = "stats_chars"
    /\ out[Len(out) - 1].seg = "stats_words"
    /\ out[Len(out)].seg = "stats_method"

\* C7 as stated: every string process_document returns ends with the
\* statistics footer, the Unreadable result included.
C7_EveryReturnHasFooter ==
    \A r \in Requests : pc[r] = "done" => EndsWithFooter(ret[r])

\* C7 amended: a returned string ends with the statistics footer exactly when
\* _format_document_response rendered it; the footer then carries the method
\* label of the title, a character count no smaller than the content shown
\* and the word count of that content when nothing was cut; the Unreadable
\* message and the handler's error message are returned as they are, without
\* a footer.
C7_RenderedReturnsHaveFooter ==
    \A r \in Requests :
        pc[r] = "done" =>
            /\ EndsWithFooter(ret[r]) <=> ret[r] \notin {UnreadableMessage, ErrorMessage}
            /\ EndsWithFooter(ret[r]) =>
                  /\ ret[r][1].seg = "title"
                  /\ SegOf(ret[r], "stats_method").lit = ret[r][1].lit
                  /\ SegOf(ret[r], "stats_chars").n
                        >= Len(SegOf(ret[r], "content").text)
                  /\ ~HasSeg(ret[r], "more") =>
                        /\ SegOf(ret[r], "stats_chars").n
                              = Len(SegOf(ret[r], "content").text)
                        /\ SegOf(ret[r], "stats_words").n
                              = WordCount(SegOf(ret[r], "content").text)

\* C7 witness: a rendered return with its footer.
C7_Witness ==
    \E r \in Requests :
        /\ pc[r] = "done"
        /\ EndsWithFooter(ret[r])
        /\ SegOf(ret[r], "stats_words").n > 1

\* The primary loop of request r is over.
LoopOver(r) == pc[r] \in {"secondary", "done"} /\ calls[r] # <<>>

\* C8: once the primary loop is over, the router has been called or is being
\* called exactly when every primary attempt failed or gave at most 50
\* trimmed characters; and the router's output is what is returned exactly
\* when its trimmed length exceeds 50.
C8_SecondaryIffAllLow ==
    \A r \in Requests :
        /\ LoopOver(r) =>
              ((pc[r] = "secondary" \/ RouterCalls(r) # <<>>)
                  <=> \A k \in 1..Len(PrimaryCalls(r)) :
                          LowReply(PrimaryCalls(r)[k].reply))
        /\ Len(RouterCalls(r)) <= 1
        /\ (pc[r] = "done" /\ RouterCalls(r) # <<>>) =>
              LET reply == RouterCalls(r)[1].reply
              IN /\ ret[r][1].lit = "Router Model Fallback"
                     <=> (reply.ok /\ Len(Strip(reply.text)) > Floor)
                 /\ ret[r][1].lit # "Router Model Fallback"
                     => ret[r] = UnreadableMessage
        /\ (pc[r] = "done" /\ RouterCalls(r) = <<>> /\ calls[r] # <<>>) =>
              ret[r][1].lit # "Router Model Fallback"

\* C8 witness: a primary candidate of exactly 50 characters was the best, the
\* router was called, and its output of more than 50 characters was returned.
C8_Witness ==
    \E r \in Requests :
        /\ pc[r] = "done"
        /\ best_length[r] = Floor
        /\ Len(RouterCalls(r)) = 1
        /\ ret[r][1].lit = "Router Model Fallback"

\* The candidate of attempt k, a failed attempt counting as an empty output.
Effective(r, k) ==
    IF PrimaryCalls(r)[k].reply.ok THEN Candidate(r, k) ELSE <<>>

\* C9: a failed primary attempt ends nothing.  The prompts are tried in list
\* order, all of them once the loop is over, whatever failed; the candidate
\* kept is the one that would be kept had each failed attempt returned an
\* empty output; and a kept candidate of more than 50 characters is what is
\* rendered and returned, or what the debug print of line 653 raised on,
\* with or without failed attempts before it.
C9_FailedAttemptIsEmptyCandidate ==
    \A r \in Requests :
        /\ \A k \in 1..Len(PrimaryCalls(r)) : PrimaryCalls(r)[k].prompt = k
        /\ Len(PrimaryCalls(r)) <= Len(prompts)
        /\ LoopOver(r) => Len(PrimaryCalls(r)) = Len(prompts)
        /\ \A k \in 1..Len(PrimaryCalls(r)) :
              Len(Effective(r, k)) <= Len(best_result[r])
        /\ best_result[r] # <<>> =>
              \E k \in 1..Len(PrimaryCalls(r)) :
                  /\ best_result[r] = Effective(r, k)
                  /\ \A j \in 1..(k - 1) : Len(Effective(r, j)) < Len(Effective(r, k))
        /\ (LoopOver(r) /\ Len(best_result[r]) > Floor) =>
              /\ pc[r] = "done"
              /\ IF ret[r] = ErrorMessage
                 THEN TRUE \in PrintOutcomes(best_result[r])
                 ELSE /\ FALSE \in PrintOutcomes(best_result[r])
                      /\ ret[r] = RenderBest(best_result[r], user_message[r])

\* C9 witness: the first attempt raised, the last one gave more than 50
\* characters, and that output was rendered and returned.
C9_Witness ==
    \E r \in Requests :
        /\ pc[r] = "done"
        /\ Len(PrimaryCalls(r)) = Len(prompts)
        /\ ~PrimaryCalls(r)[1].reply.ok
        /\ ~PrimaryCalls(r)[2].reply.ok
        /\ PrimaryCalls(r)[3].reply.ok
        /\ best_result[r] = Candidate(r, 3)
        /\ Len(best_result[r]) > Floor
        /\ EndsWithFooter(ret[r])

\* C10 as stated: when the tag scan of the selected candidate finds no span
\* and the text left after tag removal has at most 50 characters, the router
\* is called instead of that text being rendered.
C10_LowRawTextGoesToSecondary ==
    \A r \in Requests :
        (/\ pc[r] = "done"
         /\ AboveFloor(best_result[r])
         /\ LooksTagged(best_result[r])
         /\ ret[r] # ErrorMessage
         /\ ~FoundContent(ResultBlocks(best_result[r]))
         /\ Len(RawText(best_result[r])) <= Floor)
            => RouterCalls(r) # <<>>

\* The lines of text that a line-by-line reading keeps: the non-blank lines
\* whose trimmed form no earlier line has, in order.
FirstOccurrences(text) ==
    LET lines == Split(text, <<"\n">>)
        keep == SelectSeq([k \in 1..Len(lines) |-> k],
                          LAMBDA k : /\ Strip(lines[k]) # <<>>
                                     /\ \A j \in 1..(k - 1) :
                                           Strip(lines[j]) # Strip(lines[k]))
    IN Join([k \in 1..Len(keep) |-> lines[keep[k]]], <<"\n">>)

\* Request r returned its primary candidate, rendered.
PrimaryRendered(r) ==
    /\ pc[r] = "done"
    /\ calls[r] # <<>>
    /\ AboveFloor(best_result[r])
    /\ ret[r] # ErrorMessage

\* The content a rendered return shows, and what the renderer shows of text.
Shown(r) == SegOf(ret[r], "content").text

ShownOf(text, message) == Prefix(CleanContent(text), LimitOf(message))

\* C11 as stated: whenever the scan of the selected candidate recognizes no
\* span, the text rendered is the candidate with its tags removed and then
\* its repeated lines removed; a structured parse is rendered as parsed.
C11_UnstructuredStrippedAndDeduped ==
    \A r \in Requests :
        PrimaryRendered(r) =>
            LET best == best_result[r]
            IN IF FoundContent(ResultBlocks(best))
               THEN Shown(r) = ShownOf(Join(ResultBlocks(best), <<"\n">>),
                                       user_message[r])
               ELSE Shown(r) = ShownOf(_remove_duplicates(SubTags(best, 1)),
                                       user_message[r])

\* C11 amended: the Deduplicator and the tag scan are never applied to the
\* same candidate.  A candidate without both '<' and '>' is not scanned: its
\* repeated lines are removed and it is rendered under the label
\* "Granite-Docling Processing".  A candidate with both is scanned and
\* rendered under the label "DocTags Parsing (Granite-Docling)": when no span
\* is recognized its tags are removed and its whitespace, line breaks
\* included, is collapsed, and nothing removes a repeated line; when a span
\* is recognized the parsed blocks are rendered, repeated lines included.
C11_DedupOnlyWithoutMarkup ==
    \A r \in Requests :
        PrimaryRendered(r) =>
            LET best == best_result[r]
                label == ret[r][1].lit
            IN /\ ~LooksTagged(best) =>
                     /\ label = "Granite-Docling Processing"
                     /\ ResultBlocks(best) = <<>>
                     /\ SubTags(best, 1) = best
                     /\ Shown(r) = ShownOf(FirstOccurrences(best), user_message[r])
               /\ LooksTagged(best) =>
                     /\ label = "DocTags Parsing (Granite-Docling)"
                     /\ ~FoundContent(ResultBlocks(best)) =>
                           /\ Shown(r) = ShownOf(Strip(CollapseWS(SubTags(best, 1))),
                                                 user_message[r])
                           /\ SubTags(Shown(r), 1) = Shown(r)
                           /\ WordCount(Shown(r)) = WordCount(SubTags(best, 1))
                     /\ FoundContent(ResultBlocks(best)) =>
                           Shown(r) = ShownOf(Join(ResultBlocks(best), <<"\n">>),
                                              user_message[r])

\* C11 witness: a marked-up candidate with no recognized span and a repeated
\* line was rendered with the repetition, where removing the repeated lines
\* would have shown something else.
C11_Witness ==
    \E r \in Requests :
        /\ PrimaryRendered(r)
        /\ LooksTagged(best_result[r])
        /\ ~FoundContent(ResultBlocks(best_result[r]))
        /\ FirstOccurrences(SubTags(best_result[r], 1)) # SubTags(best_result[r], 1)
        /\ Shown(r) # <<>>
        /\ Shown(r) # ShownOf(FirstOccurrences(SubTags(best_result[r], 1)),
                              user_message[r])

\* Request r returned the router's output, rendered.
SecondaryRendered(r) ==
    /\ pc[r] = "done"
    /\ Len(RouterCalls(r)) = 1
    /\ RouterCalls(r)[1].reply.ok
    /\ Len(Strip(RouterCalls(r)[1].reply.text)) > FallbackFloor

\* The router's output as line 686 holds it.
SecondaryOutput(r) == Strip(RouterCalls(r)[1].reply.text)

\* C12 as stated: a router output above the floor has its tags removed and
\* its repeated lines removed before it is rendered.
C12_SecondaryStrippedAndDeduped ==
    \A r \in Requests :
        SecondaryRendered(r) =>
            Shown(r) = ShownOf(_remove_duplicates(SubTags(SecondaryOutput(r), 1)),
                               user_message[r])

\* C12 amended: a router output above the floor is handed to the renderer as
\* it is, trimmed, under the label "Router Model Fallback": no tag is removed
\* from it and no repeated line is dropped, so every character of it that is
\* not whitespace is shown, in order.
C12_SecondaryRenderedAsIs ==
    \A r \in Requests :
        SecondaryRendered(r) =>
            /\ ret[r][1].lit = "Router Model Fallback"
            /\ Shown(r) = ShownOf(SecondaryOutput(r), user_message[r])
            /\ ~HasSeg(ret[r], "more") =>
                  NonWS(Shown(r)) = NonWS(SecondaryOutput(r))

\* C12 witness: the router's output held a tag and a repeated line, and it
\* was rendered with both.
C12_Witness ==
    \E r \in Requests :
        /\ SecondaryRendered(r)
        /\ FirstOccurrences(SecondaryOutput(r)) # SecondaryOutput(r)
        /\ HasChar(Shown(r), "<")
        /\ Shown(r) # ShownOf(_remove_duplicates(SubTags(SecondaryOutput(r), 1)),
                              user_message[r])

\* C13 as stated: processing a document touches request-local state only, so
\* under any interleaving of two requests the raw output a request recorded
\* when it returned its rendered candidate is still the one on record, not
\* overwritten by the other request.
C13_RequestLocalState ==
    \A r \in Requests :
        PrimaryRendered(r) =>
            last_raw_output = [set |-> TRUE, value |-> best_result[r]]

\* The spans of the input that belong to the family at position rank of the
\* scan, in input order.
OfFamily(spans, rank) ==
    SelectSeq(spans, LAMBDA k : FamilySpans[k].rank = rank)

\* The blocks of a sequence of spans, span after span.
BlocksOf(spans) ==
    Flatten([k \in 1..Len(spans) |-> FamilySpans[spans[k]].blocks])

\* C14: whatever the order of the spans in the input, the blocks of
\* _parse_doctags_to_text come family by family in the order title, section
\* headers level 1 to 5, table/otsl, text, unordered lists, ordered lists,
\* and the blocks of one family come in the input order of its spans.
C14_BlocksInFamilyOrder ==
    (fn_pc = 1 /\ fn_in.fn = "parse") =>
        fn_out[1].result =
            Flatten([rank \in 1..10 |-> BlocksOf(OfFamily(fn_in.spans, rank))])

\* C14 witness: a text, then the second title, then the first title were
\* scanned; the blocks are the titles in input order, then the text.
C14_Witness ==
    /\ fn_pc = 1
    /\ fn_in.fn = "parse"
    /\ \E a, b, c \in 1..Len(fn_in.spans) :
          /\ a < b /\ b < c
          /\ FamilySpans[fn_in.spans[a]].rank = 8
          /\ fn_in.spans[b] = 2
          /\ fn_in.spans[c] = 1
    /\ fn_out[1].result =
          << <<"#", " ", "u", "\n">>, <<"#", " ", "t", "\n">>, <<"x", "\n">> >>

\* The names of the span families of the scan.
FamilyNames ==
    {N_title, N_table, N_otsl, N_text, N_unordered_list, N_ordered_list}
        \cup {N_section_header(level) : level \in 1..5}

\* Some opening tag of s is followed by the closing tag of the same name.
HasClosedSpan(s) ==
    \E name \in FamilyNames :
        \E i \in 1..Len(s) :
            /\ MatchAt(s, i, Open(name))
            /\ \E j \in (i + Len(Open(name)))..Len(s) :
                  MatchAt(s, j, Close(name))

\* C15 as stated: a span is recognized only when its opening tag is closed
\* by the closing tag of the same name, so an input in which no opening tag
\* has a same-name closer after it produces no block; a table opener closed
\* only by an otsl closer, or the reverse, is such an input.
C15_SameNameCloserOnly ==
    (fn_pc = 1 /\ ~HasClosedSpan(fn_in.arg)) =>
        /\ ~fn_out[1].found_content
        /\ fn_out[1].result = <<>>

\* The part of a table span before its first row break.
FirstSegment(table) == Split(table, Open(N_nl))[1]

\* C16 as stated: the explicit header row of a table is made of the kept
\* <ched> cells that stand before the first <nl> of the span, in order, and
\* of no <ched> cell after it; the data rows follow.
C16_HeaderBeforeFirstBreak ==
    (fn_pc = 1 /\ fn_in.fn = "parse") =>
        \A k \in 1..Len(fn_out[1].tables) :
            LET table == TableSpans(fn_in.arg)[k]
            IN fn_out[1].tables[k].table_rows
                  = HeaderRows(FirstSegment(table))
                        \o DataRows(Split(table, Open(N_nl)))

\* The number of cells of a rendered table line whose cells hold no '|'.
CellsIn(line) == Cardinality({i \in 1..Len(line) : line[i] = "|"}) - 1

\* The application parsed exactly one table span and a table was rendered.
OneTableRendered ==
    /\ fn_pc = 1
    /\ fn_in.fn = "parse"
    /\ Len(fn_out[1].tables) = 1
    /\ fn_out[1].tables[1].table_rows # <<>>

\* The rendered lines of that table: the header line, the separator line and
\* the data lines, which follow the caption block.
TableLines ==
    LET result == fn_out[1].result
        c == CHOOSE c \in 1..Len(result) : result[c] = TableCaption
    IN SubSeq(result, c + 1, c + 1 + Len(fn_out[1].tables[1].table_rows))

\* C17 as stated: the separator has one divider cell per header column and
\* every data row is rendered with exactly as many cells as the header row,
\* shorter rows padded and longer rows cut.
C17_RowsCutToHeaderWidth ==
    OneTableRendered =>
        LET rows == fn_out[1].tables[1].table_rows
        IN /\ CellsIn(TableLines[2]) = Len(rows[1])
           /\ \A k \in 2..Len(rows) :
                 CellsIn(TableLines[k + 1]) = Len(rows[1])

\* C17 amended: the separator has one divider cell per header column; a data
\* row with fewer cells than the header is rendered with empty cells added up
\* to the header width; a data row with more cells than the header is
\* rendered with all its cells, wider than the header: nothing is cut at
\* render time.
C17_RowsPaddedNotCut ==
    OneTableRendered =>
        LET rows == fn_out[1].tables[1].table_rows
            width == Len(rows[1])
        IN /\ Len(TableLines) = Len(rows) + 1
           /\ CellsIn(TableLines[1]) = width
           /\ CellsIn(TableLines[2]) = width
           /\ TableLines[2] = <<"|">> \o Repeat(<<"-", "-", "-", "|">>, width)
           /\ \A k \in 2..Len(rows) :
                 /\ Len(rows[k]) <= width => CellsIn(TableLines[k + 1]) = width
                 /\ Len(rows[k]) > width =>
                       CellsIn(TableLines[k + 1]) = Len(rows[k])
                 /\ \A j \in 1..Len(rows[k]) :
                       Contains(TableLines[k + 1],
                                <<"|", " ">> \o rows[k][j] \o <<" ", "|">>)

\* C17 witness: a rendered table with a header of two columns, a data line
\* of two cells for a row of one, and a data line of three cells.
C17_Witness ==
    /\ OneTableRendered
    /\ CellsIn(TableLines[2]) = 2
    /\ \E k, m \in 2..Len(fn_out[1].tables[1].table_rows) :
          /\ Len(fn_out[1].tables[1].table_rows[k]) = 1
          /\ CellsIn(TableLines[k + 1]) = 2
          /\ CellsIn(TableLines[m + 1]) = 3

\* The lines of a text, trimmed.
LinesOf(text) ==
    {Strip(l) : l \in Range(Split(text, <<"\n">>))}

\* A block of the parser that is a heading line or a line of a table.
IsStructureLine(block) ==
    /\ Strip(block) # <<>>
    /\ Strip(block)[1] \in {"#", "|"}

\* C18 as stated: in the string returned for a structured parse, every
\* heading (its markers first) and every header, separator and data row of a
\* table is a line of its own; the whitespace cleanup merges none of them.
C18_StructureLinesKept ==
    \A r \in Requests :
        (/\ PrimaryRendered(r)
         /\ LooksTagged(best_result[r])
         /\ FoundContent(ResultBlocks(best_result[r]))) =>
            \A block \in Range(ResultBlocks(best_result[r])) :
                IsStructureLine(block) => Strip(block) \in LinesOf(Shown(r))

\* C19 as stated: whatever the input, the content the renderer shows holds
\* no occurrence of any entry of technical_headers.
C19_NoBoilerplateShown ==
    (fn_pc = 1 /\ fn_in.fn = "format") =>
        \A k \in 1..Len(technical_headers) :
            ~Contains(SegOf(fn_out[1], "content").text, technical_headers[k])

\* The sentence-ending punctuation of lines 411-413.
SentenceEnd == {".", "!", "?"}

\* The whole cleaned content is shown by the application of the renderer.
ShownWhole ==
    /\ fn_pc = 1
    /\ fn_in.fn = "format"
    /\ ~HasSeg(fn_out[1], "more")

\* C20 as stated, in what it says of the line breaks: a line break inserted
\* after a sentence stays a single line break, so the cleaned content never
\* holds two line breaks in a row.
C20_SingleBreakStaysSingle ==
    ShownWhole =>
        LET shown == SegOf(fn_out[1], "content").text
        IN \A k \in 1..(Len(shown) - 1) :
              ~(shown[k] = "\n" /\ shown[k + 1] = "\n")

\* C20 amended: the cleaned content holds no whitespace but single spaces
\* and line breaks; every space that followed '.', '!' or '?' has become a
\* blank line, that is exactly two line breaks, and line breaks stand nowhere
\* else; the line breaks of the input, runs of three or more included, were
\* collapsed to single spaces with the rest of the whitespace before any
\* break was inserted.
C20_SentenceBreaksAreBlankLines ==
    ShownWhole =>
        LET shown == SegOf(fn_out[1], "content").text
            n == Len(shown)
        IN /\ \A k \in 1..n : shown[k] \in WS => shown[k] \in {" ", "\n"}
           /\ \A k \in 1..(n - 1) : ~(shown[k] = " " /\ shown[k + 1] \in WS)
           /\ \A k \in 1..(n - 1) :
                 shown[k] \in SentenceEnd => shown[k + 1] # " "
           /\ \A k \in 1..n :
                 shown[k] = "\n" =>
                     \/ /\ k > 1 /\ shown[k - 1] \in SentenceEnd
                        /\ k + 2 <= n
                        /\ shown[k + 1] = "\n"
                        /\ shown[k + 2] \notin WS
                     \/ /\ k > 2 /\ shown[k - 1] = "\n"
                        /\ shown[k - 2] \in SentenceEnd
                        /\ k < n
                        /\ shown[k + 1] \notin WS
           /\ NonWS(shown) = NonWS(StripHeaders(Strip(fn_in.arg), 1))

\* C20 witness: an input with three line breaks in a row and a sentence end
\* followed by spaces; the three breaks became one space and the sentence
\* end is followed by exactly two line breaks.
C20_Witness ==
    /\ ShownWhole
    /\ Contains(fn_in.arg, <<"\n", "\n", "\n">>)
    /\ Contains(fn_in.arg, <<"!", " ", " ">>)
    /\ Prefix(SegOf(fn_out[1], "content").text, 7)
          = <<"x", " ", "y", "!", "\n", "\n", "x">>

\* The cleaned content a rendered string was cut from, put back together
\* from what it shows and what the other rendering of the same run shows:
\* the longer of the two parts shown.
LongerShown(a, b) ==
    IF Len(SegOf(a, "content").text) >= Len(SegOf(b, "content").text)
    THEN SegOf(a, "content").text
    ELSE SegOf(b, "content").text

\* C21 as stated, in what it says of the rest of the output: the footer's
\* counts are those of the complete cleaned content under both intents, and
\* the intent changes only the truncation threshold and the hint text, so
\* the pieces that carry neither the content, its bound nor the hint are the
\* same under both intents, and a content that neither intent cuts is
\* rendered identically.
C21_IntentChangesOnlyCutAndHint ==
    (fn_pc = 2 /\ fn_in.fn = "format") =>
        LET a == fn_out[1]
            b == fn_out[2]
            clean == CleanContent(fn_in.arg)
            Other(piece) ==
                piece.seg \notin {"content_heading", "content", "more", "tip"}
        IN /\ SegOf(a, "stats_chars").n = SegOf(b, "stats_chars").n
           /\ SegOf(a, "stats_words").n = SegOf(b, "stats_words").n
           /\ SegOf(a, "stats_chars").n = Len(clean)
           /\ SegOf(a, "stats_words").n = WordCount(clean)
           /\ SelectSeq(a, Other) = SelectSeq(b, Other)
           /\ (~HasSeg(a, "more") /\ ~HasSeg(b, "more")) => a = b

\* C21 amended: for the same content rendered under the two intents, the
\* footer's character and word counts are the same and are those of the
\* complete cleaned content, whatever part of it is shown: the part shown
\* under each intent is a prefix of the same cleaned content, cut at that
\* intent's bound (2000 under analysis, 3000 under extraction) and followed,
\* when cut, by the count of omitted characters, which makes up the
\* difference, and by that intent's hint.  Title and footer are the same
\* under both intents.  Besides the bound and the hint the intent changes
\* the headings: the analysis rendering alone opens with a summary heading,
\* and its content heading names the first 2000 characters whether or not
\* anything is cut, where the extraction rendering names the first 3000
\* characters only when it cuts.
C21_FooterCountsWholeContent ==
    (fn_pc = 2 /\ fn_in.fn = "format") =>
        LET a == fn_out[1]
            b == fn_out[2]
            clean == CleanContent(fn_in.arg)
            an == IF WantsAnalysis(fn_in.msg) THEN a ELSE b
            ex == IF WantsAnalysis(fn_in.msg) THEN b ELSE a
            Kinds(out) == [k \in 1..Len(out) |-> out[k].seg]
            Framing(piece) ==
                piece.seg \in {"title", "stats_heading", "stats_chars",
                               "stats_words", "stats_method"}
            Cut(out) == IF HasSeg(out, "more") THEN <<"more", "tip">> ELSE <<>>
            stats == <<"stats_heading", "stats_chars", "stats_words",
                       "stats_method">>
        IN /\ SegOf(a, "stats_chars").n = SegOf(b, "stats_chars").n
           /\ SegOf(a, "stats_words").n = SegOf(b, "stats_words").n
           /\ SegOf(a, "stats_chars").n = Len(clean)
           /\ SegOf(a, "stats_words").n = WordCount(clean)
           /\ \A out \in {a, b} :
                 LET shown == SegOf(out, "content").text
                 IN /\ shown = Prefix(clean, Len(shown))
                    /\ shown = Prefix(LongerShown(a, b), Len(shown))
                    /\ HasSeg(out, "more") =>
                          SegOf(out, "stats_chars").n
                              = Len(shown) + SegOf(out, "more").n
                    /\ ~HasSeg(out, "more") =>
                          SegOf(out, "stats_chars").n = Len(shown)
           /\ WantsAnalysis(fn_in.msg) # WantsAnalysis(OtherMessage(fn_in.msg))
           /\ HasSeg(an, "more") <=> Len(clean) > AnalysisLimit
           /\ HasSeg(ex, "more") <=> Len(clean) > ExtractionLimit
           /\ SelectSeq(an, Framing) = SelectSeq(ex, Framing)
           /\ Kinds(an) = <<"title", "summary_heading", "content_heading",
                            "content">> \o Cut(an) \o stats
           /\ Kinds(ex) = <<"title", "content_heading", "content">>
                              \o Cut(ex) \o stats
           /\ SegOf(an, "content_heading").lit
                 = "Extracted Content (first 2000 characters):"
           /\ SegOf(ex, "content_heading").lit
                 = IF HasSeg(ex, "more")
                   THEN "Extracted Content (showing first 3000 characters):"
                   ELSE "Extracted Content:"
           /\ HasSeg(an, "more") =>
                 SegOf(an, "tip").lit = "Ask me to 'summarize this document'"
           /\ HasSeg(ex, "more") =>
                 SegOf(ex, "tip").lit = "Ask me to 'analyze this document'"

\* C21 witness: content cut under both intents, at 3000 and at 2000
\* characters, with words beyond both cuts; both footers give the counts of
\* the whole content, more words than either part shown holds, and one of
\* the two renderings alone carries the summary heading.
C21_Witness ==
    /\ fn_pc = 2
    /\ fn_in.fn = "format"
    /\ HasSeg(fn_out[1], "more")
    /\ HasSeg(fn_out[2], "more")
    /\ Len(SegOf(fn_out[1], "content").text)
          # Len(SegOf(fn_out[2], "content").text)
    /\ SegOf(fn_out[1], "stats_chars").n > ExtractionLimit
    /\ SegOf(fn_out[1], "stats_words").n = SegOf(fn_out[2], "stats_words").n
    /\ SegOf(fn_out[1], "stats_words").n
          > WordCount(SegOf(fn_out[1], "content").text)
    /\ SegOf(fn_out[2], "stats_words").n
          > WordCount(SegOf(fn_out[2], "content").text)
    /\ HasSeg(fn_out[1], "summary_heading") # HasSeg(fn_out[2], "summary_heading")
    /\ SegOf(fn_out[1], "content_heading").lit
          # SegOf(fn_out[2], "content_heading").lit

\* The backend calls of request r so far are the primary prompts in list
\* order, each once, then at most one call of the router after all of them.
CallsInOrder(r) ==
    /\ Len(calls[r]) <= Len(prompts) + 1
    /\ \A k \in 1..Len(calls[r]) :
          IF k <= Len(prompts)
          THEN calls[r][k].model = "docling" /\ calls[r][k].prompt = k
          ELSE calls[r][k].model = "router"

\* Request r has returned a string.
Returned(r) == pc[r] = "done" /\ ret[r] # <<>>

\* C22: whatever the backend replies, at every moment the calls made are the
\* three primary prompts in list order, each at most once, followed by at
\* most one router call that comes after all three; a request that has
\* entered _fallback_document_processing returns a string, and when it has
\* returned, every primary prompt has been invoked exactly once.
C22_TerminatesAfterOrderedCalls ==
    /\ [](\A r \in Requests :
             /\ CallsInOrder(r)
             /\ pc[r] = "done" => ret[r] # <<>>
             /\ (pc[r] = "done" /\ calls[r] # <<>>) =>
                   /\ Len(PrimaryCalls(r)) = Len(prompts)
                   /\ Len(RouterCalls(r)) <= 1
             /\ pc[r] = "secondary" => Len(calls[r]) = Len(prompts))
    /\ (pc[1] = "primary") ~> (Returned(1) /\ Len(calls[1]) >= Len(prompts))

\* C22 witness: a failed attempt, a short output and a long-enough-looking
\* but trimmed-short output in the three primary calls, then the router's
\* call, and a returned string.
C22_Witness ==
    /\ Returned(1)
    /\ Len(calls[1]) = Len(prompts) + 1
    /\ CallsInOrder(1)
    /\ ~calls[1][1].reply.ok
    /\ calls[1][2].reply.ok
    /\ calls[1][3].reply.ok
    /\ calls[1][2].reply.text # calls[1][3].reply.text
    /\ calls[1][4].reply.ok
    /\ EndsWithFooter(ret[1])

====
